---------------------------- MODULE Spec2Model ----------------------------
(***************************************************************************)
(* Tiered PII field encryption (pii-secure-persistence-aws).               *)
(*                                                                         *)
(* The packaged handler (lambda/src/pii_encryption_lambda) and the         *)
(* generated handler (lambda/lambda_function_generated.py) are modelled    *)
(* side by side: `deployed' says which of the two serves the database.     *)
(*                                                                         *)
(* Values are sequences of strings: NULL is <<>>, the text "x" is <<"x">>, *)
(* and every encoding step (Fernet, KMS, base64) pushes a tag in front of  *)
(* what it wraps, so that decoding has to strip the right tag with the     *)
(* right key and fails otherwise.                                          *)
(***************************************************************************)
EXTENDS Integers, Sequences, FiniteSets, TLC

VARIABLES
    deployed,   \* "packaged" | "generated": the handler serving the database
    users,      \* table users: id -> row (column -> value)
    metadata,   \* table encryption_metadata: a set of rows
    audit,      \* table encryption_audit: rows in insertion order
    nextId,     \* the next id the users table generates
    secret,     \* the pii-encryption-keys secret held by the secret store
    supplied,   \* history: id -> the non-empty values create_user was given
    deleted,    \* history: the ids delete_user has removed
    req,        \* the last event handed to lambda_handler
    fault,      \* the failures injected into the last invocation
    resp,       \* the last response envelope
    warned,     \* whether a log_audit call of the last invocation raised
    held,       \* field level: the last encrypt_field call and its result
    dec,        \* field level: the last decrypt_field call and its result
    api,        \* backend: the HTTP request being served and its Lambda calls
    proc,       \* the key provider's caches in one execution environment
    conn,       \* one database operation: its local conn and the connections it has open
    race        \* a get_user running in another execution environment

vars == <<deployed, users, metadata, audit, nextId, secret, supplied, deleted,
          req, fault, resp, warned, held, dec, api, proc, conn, race>>

dbvars == <<deployed, users, metadata, audit, nextId, supplied, deleted, req,
            fault, resp, warned>>

fieldvars == <<held, dec>>

\* what the engine's own operations leave alone
sidevars == <<api, proc, conn, race>>

---------------------------------------------------------------------------
(* Bounds *)

MaxUsers == 1

MaxFields == 2

MaxKeyVersion == 2

MaxAudit == 2

---------------------------------------------------------------------------
(* Values *)

NULL == <<>>

EmptyStr == <<"">>

Plaintexts == {<<"a">>, <<"b">>}

\* None, '' and two non-empty strings
InValues == {NULL, EmptyStr} \cup Plaintexts

VerTag(v) == IF v = 1 THEN "v1" ELSE IF v = 2 THEN "v2" ELSE IF v = 3 THEN "v3" ELSE "v4"

\* the one element of a singleton: The({e(x) : x \in {v}}) is e with x bound to v
The(S) == CHOOSE x \in S : TRUE

\* value is None or value == ''
IsEmpty(value) == value = NULL \/ value = EmptyStr

---------------------------------------------------------------------------
(* External services: Fernet, KMS, base64 *)

\* Fernet(key_v).encrypt(data): a token only the same key opens
FernetEncrypt(version, data) == <<"fernet", VerTag(version)>> \o data

\* Fernet(key_v).decrypt(token): InvalidToken unless the token was made with key_v
FernetDecrypt(version, token) ==
    IF Len(token) >= 2 /\ token[1] = "fernet" /\ token[2] = VerTag(version)
    THEN [ok |-> TRUE, value |-> SubSeq(token, 3, Len(token))]
    ELSE [ok |-> FALSE, value |-> NULL]

\* kms.encrypt(KeyId=alias, Plaintext=data)['CiphertextBlob']
KmsEncrypt(alias, data) == <<"kms", alias>> \o data

\* kms.decrypt(CiphertextBlob=blob)['Plaintext']: the blob names its own key
KmsDecrypt(blob) ==
    IF Len(blob) >= 2 /\ blob[1] = "kms"
    THEN [ok |-> TRUE, value |-> SubSeq(blob, 3, Len(blob))]
    ELSE [ok |-> FALSE, value |-> NULL]

B64Encode(blob) == <<"b64">> \o blob

\* base64.b64decode of text that is no base64 of a KMS blob fails here or in KMS
B64Decode(text) ==
    IF Len(text) >= 1 /\ text[1] = "b64"
    THEN [ok |-> TRUE, value |-> Tail(text)]
    ELSE [ok |-> FALSE, value |-> NULL]

---------------------------------------------------------------------------
(* PIIClassifier *)

Level1Names == {"email", "first_name", "last_name", "phone", "phone_number",
                "name", "username", "display_name"}

Level2Names == {"address", "street_address", "city", "state", "zip_code",
                "postal_code", "date_of_birth", "dob", "birth_date", "ip_address",
                "location", "country", "region", "timezone"}

Level3Names == {"ssn", "social_security_number", "bank_account", "account_number",
                "credit_card", "credit_card_number", "medical_record",
                "health_record", "passport_number", "driver_license", "tax_id",
                "national_id"}

\* field_name.lower().strip(), on the names the model uses
LowerStrip(field_name) ==
    CASE field_name = "SSN" -> "ssn"
      [] field_name = "Email" -> "email"
      [] field_name = " address " -> "address"
      [] OTHER -> field_name

\* classify_pii_level, were it to look the name up as given
classify_pii_level_case_sensitive(field_name) ==
    LET field_lower == field_name
    IN  IF field_lower \in Level1Names THEN 1
        ELSE IF field_lower \in Level2Names THEN 2
        ELSE IF field_lower \in Level3Names THEN 3
        ELSE 1

classify_pii_level(field_name) ==
    LET field_lower == LowerStrip(field_name)
    IN  IF field_lower \in Level1Names THEN 1
        ELSE IF field_lower \in Level2Names THEN 2
        ELSE IF field_lower \in Level3Names THEN 3
        ELSE 1

\* get_encryption_requirements, were requires_kms set for level 3 only
get_encryption_requirements_kms_level3(field_name) ==
    LET level == classify_pii_level(field_name)
    IN  [level |-> level,
         field_name |-> field_name,
         requires_kms |-> level = 3,
         requires_app_encryption |-> level = 3,
         storage_suffix |-> IF level > 1 THEN "_encrypted" ELSE ""]

get_encryption_requirements(field_name) ==
    LET level == classify_pii_level(field_name)
    IN  [level |-> level,
         field_name |-> field_name,
         requires_kms |-> level >= 2,
         requires_app_encryption |-> level = 3,
         storage_suffix |-> IF level > 1 THEN "_encrypted" ELSE ""]

---------------------------------------------------------------------------
(* EncryptionHandler: keys *)

level2_kms_alias == "alias/pii-level2"

level3_kms_alias == "alias/pii-level3"

\* What one invocation sees of the outside: the key secret, and whether the
\* KMS and the secret store answer.
Env(keys, kms_ok, secrets_ok) ==
    [keys |-> keys, kms_ok |-> kms_ok, secrets_ok |-> secrets_ok]

\* get_app_keys: the secret's app_encryption_keys, or the store's exception
get_app_keys(env) ==
    IF env.secrets_ok
    THEN [raised |-> "none", keys |-> env.keys]
    ELSE [raised |-> "ClientError", keys |-> env.keys]

\* get_current_app_cipher: the cipher of keys['level3_app_key_v<current_version>'],
\* named by its key version
get_current_app_cipher(env) ==
    LET k == get_app_keys(env)
    IN  IF k.raised # "none" THEN [raised |-> k.raised, cipher |-> 0]
        ELSE IF k.keys.current_version \notin k.keys.versions
             THEN [raised |-> "KeyError", cipher |-> 0]
        ELSE [raised |-> "none", cipher |-> k.keys.current_version]

\* get_app_cipher_for_version
get_app_cipher_for_version(env, version) ==
    LET k == get_app_keys(env)
    IN  IF k.raised # "none" THEN [raised |-> k.raised, cipher |-> 0]
        ELSE IF version \notin k.keys.versions
             THEN [raised |-> "KeyError", cipher |-> 0]
        ELSE [raised |-> "none", cipher |-> version]

---------------------------------------------------------------------------
(* EncryptionHandler.encrypt_field / decrypt_field *)

\* The dict encrypt_field returns; a key the dict lacks reads "none" (0 for
\* app_key_version), and `raised' names the exception that left the call.
EncResult(value, encrypted, level, field_name, method, version, kms_key, raised) ==
    [value |-> value, encrypted |-> encrypted, level |-> level,
     field_name |-> field_name, method |-> method, app_key_version |-> version,
     kms_key |-> kms_key, raised |-> raised]

EncRaised(field_name, level, exc) ==
    EncResult(NULL, FALSE, level, field_name, "none", 0, "none", exc)

\* encrypt_field, were it to report app_key_version 1 whatever key it used
encrypt_field_version1(env, field_name, value) ==
    IF IsEmpty(value)
    THEN EncResult(NULL, FALSE, 1, field_name, "none", 0, "none", "none")
    ELSE
    LET requirements == get_encryption_requirements(field_name)
        level == requirements.level
    IN  CASE level = 1 ->
               EncResult(value, FALSE, 1, field_name, "rds_only", 0, "none", "none")
          [] level = 2 ->
               IF ~env.kms_ok THEN EncRaised(field_name, level, "ClientError")
               ELSE EncResult(B64Encode(KmsEncrypt(level2_kms_alias, value)),
                              TRUE, 2, field_name, "kms_only", 0,
                              level2_kms_alias, "none")
          [] level = 3 ->
               LET c == get_current_app_cipher(env)
               IN  IF c.raised # "none" THEN EncRaised(field_name, level, c.raised)
                   ELSE IF ~env.kms_ok THEN EncRaised(field_name, level, "ClientError")
                   ELSE LET app_encrypted == FernetEncrypt(c.cipher, value)
                            blob == KmsEncrypt(level3_kms_alias, app_encrypted)
                        IN  EncResult(B64Encode(blob), TRUE, 3, field_name,
                                      "double_encryption",
                                      1,
                                      level3_kms_alias, "none")

\* encrypt_field, were it to return early for None only
encrypt_field_none_only(env, field_name, value) ==
    IF value = NULL
    THEN EncResult(NULL, FALSE, 1, field_name, "none", 0, "none", "none")
    ELSE
    LET requirements == get_encryption_requirements(field_name)
        level == requirements.level
    IN  CASE level = 1 ->
               EncResult(value, FALSE, 1, field_name, "rds_only", 0, "none", "none")
          [] level = 2 ->
               IF ~env.kms_ok THEN EncRaised(field_name, level, "ClientError")
               ELSE EncResult(B64Encode(KmsEncrypt(level2_kms_alias, value)),
                              TRUE, 2, field_name, "kms_only", 0,
                              level2_kms_alias, "none")
          [] level = 3 ->
               LET c == get_current_app_cipher(env)
               IN  IF c.raised # "none" THEN EncRaised(field_name, level, c.raised)
                   ELSE IF ~env.kms_ok THEN EncRaised(field_name, level, "ClientError")
                   ELSE LET app_encrypted == FernetEncrypt(c.cipher, value)
                            blob == KmsEncrypt(level3_kms_alias, app_encrypted)
                        IN  EncResult(B64Encode(blob), TRUE, 3, field_name,
                                      "double_encryption",
                                      get_app_keys(env).keys.current_version,
                                      level3_kms_alias, "none")

\* encrypt_field, were its level-1 branch to ask KMS first
encrypt_field_level1_via_kms(env, field_name, value) ==
    IF IsEmpty(value)
    THEN EncResult(NULL, FALSE, 1, field_name, "none", 0, "none", "none")
    ELSE
    LET requirements == get_encryption_requirements(field_name)
        level == requirements.level
    IN  CASE level = 1 ->
               IF ~env.kms_ok THEN EncRaised(field_name, level, "ClientError")
               ELSE EncResult(value, FALSE, 1, field_name, "rds_only", 0, "none", "none")
          [] level = 2 ->
               IF ~env.kms_ok THEN EncRaised(field_name, level, "ClientError")
               ELSE EncResult(B64Encode(KmsEncrypt(level2_kms_alias, value)),
                              TRUE, 2, field_name, "kms_only", 0,
                              level2_kms_alias, "none")
          [] level = 3 ->
               LET c == get_current_app_cipher(env)
               IN  IF c.raised # "none" THEN EncRaised(field_name, level, c.raised)
                   ELSE IF ~env.kms_ok THEN EncRaised(field_name, level, "ClientError")
                   ELSE LET app_encrypted == FernetEncrypt(c.cipher, value)
                            blob == KmsEncrypt(level3_kms_alias, app_encrypted)
                        IN  EncResult(B64Encode(blob), TRUE, 3, field_name,
                                      "double_encryption",
                                      get_app_keys(env).keys.current_version,
                                      level3_kms_alias, "none")

\* encrypt_field, were it to hand a level-2 value back as it came
encrypt_field_level2_in_clear(env, field_name, value) ==
    IF IsEmpty(value)
    THEN EncResult(NULL, FALSE, 1, field_name, "none", 0, "none", "none")
    ELSE
    LET requirements == get_encryption_requirements(field_name)
        level == requirements.level
    IN  CASE level = 1 ->
               EncResult(value, FALSE, 1, field_name, "rds_only", 0, "none", "none")
          [] level = 2 ->
               IF ~env.kms_ok THEN EncRaised(field_name, level, "ClientError")
               ELSE EncResult(value,
                              TRUE, 2, field_name, "kms_only", 0,
                              level2_kms_alias, "none")
          [] level = 3 ->
               LET c == get_current_app_cipher(env)
               IN  IF c.raised # "none" THEN EncRaised(field_name, level, c.raised)
                   ELSE IF ~env.kms_ok THEN EncRaised(field_name, level, "ClientError")
                   ELSE LET app_encrypted == FernetEncrypt(c.cipher, value)
                            blob == KmsEncrypt(level3_kms_alias, app_encrypted)
                        IN  EncResult(B64Encode(blob), TRUE, 3, field_name,
                                      "double_encryption",
                                      get_app_keys(env).keys.current_version,
                                      level3_kms_alias, "none")

encrypt_field(env, field_name, value) ==
    IF IsEmpty(value)
    THEN EncResult(NULL, FALSE, 1, field_name, "none", 0, "none", "none")
    ELSE
    LET requirements == get_encryption_requirements(field_name)
        level == requirements.level
    IN  CASE level = 1 ->
               EncResult(value, FALSE, 1, field_name, "rds_only", 0, "none", "none")
          [] level = 2 ->
               IF ~env.kms_ok THEN EncRaised(field_name, level, "ClientError")
               ELSE EncResult(B64Encode(KmsEncrypt(level2_kms_alias, value)),
                              TRUE, 2, field_name, "kms_only", 0,
                              level2_kms_alias, "none")
          [] level = 3 ->
               LET c == get_current_app_cipher(env)
               IN  IF c.raised # "none" THEN EncRaised(field_name, level, c.raised)
                   ELSE IF ~env.kms_ok THEN EncRaised(field_name, level, "ClientError")
                   ELSE LET app_encrypted == FernetEncrypt(c.cipher, value)
                            blob == KmsEncrypt(level3_kms_alias, app_encrypted)
                        IN  EncResult(B64Encode(blob), TRUE, 3, field_name,
                                      "double_encryption",
                                      get_app_keys(env).keys.current_version,
                                      level3_kms_alias, "none")

\* The metadata dict decrypt_field is handed: None and {} are `empty'; a dict
\* may lack 'level' or 'app_key_version'; app_key_version 0 is None.
Metadata(has_level, level, has_version, version) ==
    [empty |-> FALSE, has_level |-> has_level, level |-> level,
     has_version |-> has_version, app_key_version |-> version]

NoMetadata ==
    [empty |-> TRUE, has_level |-> FALSE, level |-> 0,
     has_version |-> FALSE, app_key_version |-> 0]

DecResult(value, raised) == [value |-> value, raised |-> raised]

\* decrypt_field, were it to open level-3 tokens with the current key
decrypt_field_current_key(env, field_name, encrypted_value, md) ==
    IF IsEmpty(encrypted_value)
    THEN DecResult(encrypted_value, "none")
    ELSE
    LET requirements == get_encryption_requirements(field_name)
        level == IF ~md.empty /\ md.has_level THEN md.level ELSE requirements.level
    IN  CASE level = 1 -> DecResult(encrypted_value, "none")
          [] level = 2 ->
               LET ciphertext == B64Decode(encrypted_value)
                   response == KmsDecrypt(ciphertext.value)
               IN  IF ~ciphertext.ok THEN DecResult(NULL, "Error")
                   ELSE IF ~env.kms_ok \/ ~response.ok THEN DecResult(NULL, "ClientError")
                   ELSE DecResult(response.value, "none")
          [] level = 3 ->
               LET ciphertext == B64Decode(encrypted_value)
                   response == KmsDecrypt(ciphertext.value)
                   app_key_version ==
                       IF ~md.empty /\ md.has_version THEN md.app_key_version ELSE 1
                   c == get_current_app_cipher(env)
                   decrypted_value == FernetDecrypt(c.cipher, response.value)
               IN  IF ~ciphertext.ok THEN DecResult(NULL, "Error")
                   ELSE IF ~env.kms_ok \/ ~response.ok THEN DecResult(NULL, "ClientError")
                   ELSE IF c.raised # "none" THEN DecResult(NULL, c.raised)
                   ELSE IF ~decrypted_value.ok THEN DecResult(NULL, "InvalidToken")
                   ELSE DecResult(decrypted_value.value, "none")
          [] OTHER -> DecResult(NULL, "none")

\* decrypt_field, were it to classify the name afresh whatever the metadata says
decrypt_field_reclassifying(env, field_name, encrypted_value, md) ==
    IF IsEmpty(encrypted_value)
    THEN DecResult(encrypted_value, "none")
    ELSE
    LET requirements == get_encryption_requirements(field_name)
        level == requirements.level
    IN  CASE level = 1 -> DecResult(encrypted_value, "none")
          [] level = 2 ->
               LET ciphertext == B64Decode(encrypted_value)
                   response == KmsDecrypt(ciphertext.value)
               IN  IF ~ciphertext.ok THEN DecResult(NULL, "Error")
                   ELSE IF ~env.kms_ok \/ ~response.ok THEN DecResult(NULL, "ClientError")
                   ELSE DecResult(response.value, "none")
          [] level = 3 ->
               LET ciphertext == B64Decode(encrypted_value)
                   response == KmsDecrypt(ciphertext.value)
                   app_key_version ==
                       IF ~md.empty /\ md.has_version THEN md.app_key_version ELSE 1
                   c == get_app_cipher_for_version(env, app_key_version)
                   decrypted_value == FernetDecrypt(c.cipher, response.value)
               IN  IF ~ciphertext.ok THEN DecResult(NULL, "Error")
                   ELSE IF ~env.kms_ok \/ ~response.ok THEN DecResult(NULL, "ClientError")
                   ELSE IF c.raised # "none" THEN DecResult(NULL, c.raised)
                   ELSE IF ~decrypted_value.ok THEN DecResult(NULL, "InvalidToken")
                   ELSE DecResult(decrypted_value.value, "none")
          [] OTHER -> DecResult(NULL, "none")

decrypt_field(env, field_name, encrypted_value, md) ==
    IF IsEmpty(encrypted_value)
    THEN DecResult(encrypted_value, "none")
    ELSE
    LET requirements == get_encryption_requirements(field_name)
        level == IF ~md.empty /\ md.has_level THEN md.level ELSE requirements.level
    IN  CASE level = 1 -> DecResult(encrypted_value, "none")
          [] level = 2 ->
               LET ciphertext == B64Decode(encrypted_value)
                   response == KmsDecrypt(ciphertext.value)
               IN  IF ~ciphertext.ok THEN DecResult(NULL, "Error")
                   ELSE IF ~env.kms_ok \/ ~response.ok THEN DecResult(NULL, "ClientError")
                   ELSE DecResult(response.value, "none")
          [] level = 3 ->
               LET ciphertext == B64Decode(encrypted_value)
                   response == KmsDecrypt(ciphertext.value)
                   app_key_version ==
                       IF ~md.empty /\ md.has_version THEN md.app_key_version ELSE 1
                   c == get_app_cipher_for_version(env, app_key_version)
                   decrypted_value == FernetDecrypt(c.cipher, response.value)
               IN  IF ~ciphertext.ok THEN DecResult(NULL, "Error")
                   ELSE IF ~env.kms_ok \/ ~response.ok THEN DecResult(NULL, "ClientError")
                   ELSE IF c.raised # "none" THEN DecResult(NULL, c.raised)
                   ELSE IF ~decrypted_value.ok THEN DecResult(NULL, "InvalidToken")
                   ELSE DecResult(decrypted_value.value, "none")
          [] OTHER -> DecResult(NULL, "none")

---------------------------------------------------------------------------
(* The secret store *)

InitSecret == [current_version |-> 1, versions |-> {1}]

\* A database operation in progress: the operation and where it stands, the
\* value of its local variable conn ("unbound" before the first assignment,
\* "None", "open", "closed"), the statements it has executed, the calls it has
\* made on the connection, whether it has raised inside its try block, the
\* connections open at the database, and the operations finished so far.
IdleConn ==
    [op |-> "none", pc |-> "idle", local |-> "unbound", executed |-> 0,
     calls |-> <<>>, raised |-> FALSE, open |-> 0, finished |-> 0]

\* the two secrets the key provider reads (EncryptionHandler.__init__)
app_keys_secret == "pii-encryption-keys"

db_credentials_secret == "pii-database-credentials"

Secrets == {app_keys_secret, db_credentials_secret}

\* functools.lru_cache(maxsize=1) around a method: one entry, keyed by the
\* method's arguments, that is by self; nothing cached yet is key 0
NoEntry == [key |-> 0, value |-> <<>>]

\* One execution environment: the EncryptionHandler instance serving the
\* current invocation (0 between invocations), the instances made so far, the
\* cache entry of get_app_keys and of get_db_credentials, the database
\* credentials held by the secret store, and the history of each secret:
\* GetSecretValue calls answered, the first value retrieved, the last value a
\* getter returned.
IdleProc ==
    [handler |-> 0, made |-> 0,
     cache |-> [name \in Secrets |-> NoEntry],
     credentials |-> 1,
     fetched |-> [name \in Secrets |-> 0],
     first |-> [name \in Secrets |-> <<>>],
     got |-> [name \in Secrets |-> <<>>]]

\* Key rotation, done by whoever operates the secret: a new key version becomes
\* current, the old versions stay in the secret.
RotateKey ==
    /\ secret.current_version < MaxKeyVersion
    /\ secret' = [current_version |-> secret.current_version + 1,
                  versions |-> secret.versions \cup {secret.current_version + 1}]

---------------------------------------------------------------------------
(* Field level: encrypt_field and decrypt_field called directly *)

FieldNames == {"email", "nickname", "address", "date_of_birth", "ssn",
               "tax_id", "SSN", " address "}

NoHeld ==
    [called |-> FALSE, field_name |-> "none", value |-> NULL, keys |-> InitSecret,
     kms_ok |-> TRUE, secrets_ok |-> TRUE,
     result |-> EncResult(NULL, FALSE, 0, "none", "none", 0, "none", "none")]

NoDec ==
    [called |-> FALSE, md |-> NoMetadata, kms_ok |-> TRUE, secrets_ok |-> TRUE,
     result |-> DecResult(NULL, "none")]

\* the metadata handle_encrypt_operation reports for an encrypt_field result
MetadataOf(result) == Metadata(TRUE, result.level, TRUE, result.app_key_version)

MetadataChoices ==
    {NoMetadata} \cup
    {Metadata(hl, IF hl THEN l ELSE 0, hv, IF hv THEN v ELSE 0) :
        hl \in BOOLEAN, l \in 1..3, hv \in BOOLEAN, v \in 0..MaxKeyVersion}

FieldEncrypt ==
    /\ \E field_name \in FieldNames, value \in InValues, kms_ok \in BOOLEAN,
          secrets_ok \in BOOLEAN :
          held' = [called |-> TRUE, field_name |-> field_name, value |-> value,
                   keys |-> secret, kms_ok |-> kms_ok, secrets_ok |-> secrets_ok,
                   result |-> encrypt_field(Env(secret, kms_ok, secrets_ok),
                                            field_name, value)]
    /\ dec' = NoDec
    /\ UNCHANGED <<secret, dbvars, sidevars>>

FieldDecrypt ==
    /\ held.called
    /\ held.result.raised = "none"
    /\ \E md \in MetadataChoices, kms_ok \in BOOLEAN, secrets_ok \in BOOLEAN :
          dec' = [called |-> TRUE, md |-> md, kms_ok |-> kms_ok,
                  secrets_ok |-> secrets_ok,
                  result |-> decrypt_field(Env(secret, kms_ok, secrets_ok),
                                           held.field_name, held.result.value, md)]
    /\ UNCHANGED <<held, secret, dbvars, sidevars>>

FieldRotate ==
    /\ RotateKey
    /\ UNCHANGED <<held, dec, dbvars, sidevars>>

---------------------------------------------------------------------------
(* Events and injected failures *)

\* the field names create_user is called with
InFields == {"email", "address", "date_of_birth", "ssn"}

\* dicts are walked in the order the caller wrote them; the model fixes one
FieldOrder == <<"email", "address", "date_of_birth", "ssn", "ip_address">>

EmptyData == [x \in {} |-> NULL]

\* the values create_user is called with: None, '' and two texts
CreateValues == InValues

DataChoices ==
    UNION {[fs -> CreateValues] : fs \in {x \in SUBSET InFields : Cardinality(x) <= MaxFields}}

Event(operation, data, user_id, limit, offset) ==
    [operation |-> operation, data |-> data, user_id |-> user_id,
     limit |-> limit, offset |-> offset]

\* One failure of the main path per invocation (kind, and the field whose call
\* it hits), and the fate of the invocation's audit writes.
Fault(kind, field, audit_fault) == [kind |-> kind, field |-> field, audit |-> audit_fault]

NoFault == Fault("none", "none", "none")

\* each audit write of the invocation succeeds, or fails at the connection,
\* the insert or the commit
AuditFaults == {"none", "connect", "insert", "commit"}

EnvFor(keys, f, field_name) ==
    Env(keys, ~(f.kind = "kms" /\ f.field = field_name), f.kind # "app_keys")

---------------------------------------------------------------------------
(* Response envelopes *)

NoUserId == 0

Resp(statusCode, success, type, error, user_id, data, listed, total) ==
    [statusCode |-> statusCode, success |-> success, type |-> type,
     error |-> error, user_id |-> user_id, data |-> data, users |-> listed,
     total |-> total]

NoResp == Resp(0, FALSE, "none", "none", NoUserId, EmptyData, <<>>, 0)

\* A get_user between the two SELECTs of retrieve_encrypted_user: the user it
\* asks for, the users row its first SELECT returned, the user's metadata rows
\* as they were then and as its second SELECT returned them, and the response.
IdleRace ==
    [pc |-> "idle", user_id |-> 0, user_dict |-> <<>>, before |-> {},
     selected |-> {}, resp |-> NoResp]

\* what a handler leaves behind: the exception that left it (or "none"), the
\* response it returned, the three tables, and whether a caller of log_audit
\* got an exception from it
Out(raised, error, response, u, m, n, a, w) ==
    [raised |-> raised, error |-> error, resp |-> response, users |-> u,
     metadata |-> m, nextId |-> n, audit |-> a, warned |-> w]

---------------------------------------------------------------------------
(* EncryptionHandler.log_audit *)

AuditRow(user_id, field_name, operation, success) ==
    [user_id |-> user_id, field_name |-> field_name,
     pii_level |-> classify_pii_level(field_name), operation |-> operation,
     accessed_by |-> "lambda-encryption-service", success |-> success]

\* log_audit, were its except clause to re-raise
log_audit_raising(a, user_id, field_name, operation, success, f) ==
    IF f.audit = "none"
    THEN [audit |-> Append(a, AuditRow(user_id, field_name, operation, success)),
          raised |-> "none"]
    ELSE [audit |-> a, raised |-> "OperationalError"]

log_audit(a, user_id, field_name, operation, success, f) ==
    IF f.audit = "none"
    THEN [audit |-> Append(a, AuditRow(user_id, field_name, operation, success)),
          raised |-> "none"]
    ELSE \* except Exception: logged, not raised
         [audit |-> a, raised |-> "none"]

---------------------------------------------------------------------------
(* DatabaseManager (packaged handler) *)

PackagedColumnSeq ==
    <<"email", "first_name", "last_name", "phone", "address_encrypted",
      "dob_encrypted", "ssn_encrypted", "bank_account_encrypted",
      "credit_card_encrypted">>

SeqRange(sq) == {sq[i] : i \in 1..Len(sq)}

PackagedColumns == SeqRange(PackagedColumnSeq)

\* f"{field_name}_encrypted"
WithSuffix(field_name) ==
    CASE field_name = "address" -> "address_encrypted"
      [] field_name = "date_of_birth" -> "date_of_birth_encrypted"
      [] field_name = "dob" -> "dob_encrypted"
      [] field_name = "ip_address" -> "ip_address_encrypted"
      [] field_name = "ssn" -> "ssn_encrypted"
      [] field_name = "bank_account" -> "bank_account_encrypted"
      [] field_name = "credit_card" -> "credit_card_encrypted"
      [] field_name = "city" -> "city_encrypted"
      [] field_name = "tax_id" -> "tax_id_encrypted"
      [] field_name = "SSN" -> "SSN_encrypted"
      [] OTHER -> "other_encrypted"

\* field_name.endswith('_encrypted')
EndsWithEncrypted(column) ==
    column \in {"address_encrypted", "date_of_birth_encrypted", "dob_encrypted",
                "ip_address_encrypted", "ssn_encrypted", "bank_account_encrypted",
                "credit_card_encrypted", "city_encrypted", "tax_id_encrypted",
                "SSN_encrypted", "other_encrypted"}

\* field_name.replace('_encrypted', '')
StripSuffix(column) ==
    CASE column = "address_encrypted" -> "address"
      [] column = "date_of_birth_encrypted" -> "date_of_birth"
      [] column = "dob_encrypted" -> "dob"
      [] column = "ip_address_encrypted" -> "ip_address"
      [] column = "ssn_encrypted" -> "ssn"
      [] column = "bank_account_encrypted" -> "bank_account"
      [] column = "credit_card_encrypted" -> "credit_card"
      [] column = "city_encrypted" -> "city"
      [] column = "tax_id_encrypted" -> "tax_id"
      [] column = "SSN_encrypted" -> "SSN"
      [] OTHER -> column

\* store_encrypted_user's field_mapping: storage key -> column
field_mapping ==
    [k \in {"email", "first_name", "last_name", "phone", "address_encrypted",
            "dob_encrypted", "date_of_birth_encrypted", "ssn_encrypted",
            "bank_account_encrypted", "credit_card_encrypted"} |->
        IF k = "date_of_birth_encrypted" THEN "dob_encrypted" ELSE k]

MetaRow(user_id, field_name, field_metadata) ==
    [user_id |-> user_id, field_name |-> field_name,
     pii_level |-> field_metadata.level,
     app_key_version |-> field_metadata.app_key_version,
     kms_key_alias |-> field_metadata.kms_key,
     \* not among the inserted columns: the column's default
     encryption_algorithm |-> "default"]

\* _insert_metadata for the metadata dict's fields in order, up to the insert
\* that fails
RECURSIVE InsertMetadata(_, _, _, _, _)
InsertMetadata(m, user_id, md, f, i) ==
    IF i > Len(FieldOrder) THEN [metadata |-> m, raised |-> "none"]
    ELSE LET original_field == FieldOrder[i]
         IN  IF original_field \notin DOMAIN md
             THEN InsertMetadata(m, user_id, md, f, i + 1)
             ELSE IF f.kind = "insert_meta" /\ f.field = original_field
             THEN [metadata |-> m, raised |-> "DatabaseError"]
             ELSE InsertMetadata(m \cup {MetaRow(user_id, original_field, md[original_field])},
                                 user_id, md, f, i + 1)

\* The body of store_encrypted_user's try block: the tables as the open
\* transaction sees them when the block is left, and the exception that left it.
StoreTransaction(u, m, n, encrypted_data, f) ==
    LET user_fields == encrypted_data.fields
        insert_keys == {k \in DOMAIN user_fields :
                           k \in DOMAIN field_mapping /\ user_fields[k] # NULL}
        insert_fields == {field_mapping[k] : k \in insert_keys}
        row == [c \in PackagedColumns |->
                   IF \E k \in insert_keys : field_mapping[k] = c
                   THEN user_fields[CHOOSE k \in insert_keys : field_mapping[k] = c]
                   ELSE NULL]
        user_id == n
        left(exc, uu, mm) == [raised |-> exc, users |-> uu, metadata |-> mm,
                              user_id |-> user_id]
    IN  IF insert_keys = {} THEN left("ValueError", u, m)
        ELSE IF Cardinality(insert_fields) < Cardinality(insert_keys)
             \* INSERT names a column twice
             THEN left("ProgrammingError", u, m)
        ELSE IF f.kind = "insert_user" THEN left("DatabaseError", u, m)
        ELSE The({
               IF mi.raised # "none" THEN left(mi.raised, inserted, mi.metadata)
               ELSE IF f.kind = "commit"
               THEN left("OperationalError", inserted, mi.metadata)
               ELSE left("none", inserted, mi.metadata) :
               inserted \in {[x \in DOMAIN u \cup {user_id} |->
                                IF x = user_id THEN row ELSE u[x]]},
               mi \in {InsertMetadata(m, user_id, encrypted_data.metadata, f, 1)} })

\* store_encrypted_user, were each statement committed as it is executed
store_encrypted_user_autocommit(u, m, n, encrypted_data, f) ==
    IF f.kind = "connect"
    THEN [raised |-> "OperationalError", users |-> u, metadata |-> m,
          nextId |-> n, user_id |-> NoUserId]
    ELSE The({ [raised |-> t.raised, users |-> t.users, metadata |-> t.metadata,
                nextId |-> n + 1, user_id |-> t.user_id] :
               t \in {StoreTransaction(u, m, n, encrypted_data, f)} })

store_encrypted_user(u, m, n, encrypted_data, f) ==
    IF f.kind = "connect"
    THEN [raised |-> "OperationalError", users |-> u, metadata |-> m,
          nextId |-> n, user_id |-> NoUserId]
    ELSE The({ IF t.raised # "none"
               THEN \* conn.rollback()
                    [raised |-> t.raised, users |-> u, metadata |-> m,
                     nextId |-> n, user_id |-> NoUserId]
               ELSE \* conn.commit()
                    [raised |-> "none", users |-> t.users, metadata |-> t.metadata,
                     nextId |-> n + 1, user_id |-> t.user_id] :
               t \in {StoreTransaction(u, m, n, encrypted_data, f)} })

retrieve_encrypted_user(u, m, user_id, f) ==
    LET rows == {r \in m : r.user_id = user_id}
        md == [fn \in {r.field_name : r \in rows} |->
                  LET row == CHOOSE r \in rows : r.field_name = fn
                  IN  Metadata(TRUE, row.pii_level, TRUE, row.app_key_version)]
        none == [x \in {} |-> NULL]
    IN  IF f.kind = "connect"
        THEN [raised |-> "OperationalError", error |-> "db", user_dict |-> none,
              metadata |-> none]
        ELSE IF f.kind = "select"
        THEN [raised |-> "DatabaseError", error |-> "db", user_dict |-> none,
              metadata |-> none]
        ELSE IF user_id \notin DOMAIN u
        THEN [raised |-> "ValueError", error |-> "not found", user_dict |-> none,
              metadata |-> none]
        ELSE [raised |-> "none", error |-> "none", user_dict |-> u[user_id],
              metadata |-> md]

\* ON DELETE CASCADE of encryption_metadata.user_id
DeleteCascade(m, user_id) == {r \in m : r.user_id # user_id}

\* delete_user, were it to report success without deleting
delete_user_no_commit(u, m, user_id, f) ==
    IF f.kind = "connect" THEN [raised |-> "OperationalError", users |-> u, metadata |-> m]
    ELSE IF user_id \notin DOMAIN u THEN [raised |-> "ValueError", users |-> u, metadata |-> m]
    ELSE [raised |-> "none", users |-> u, metadata |-> m]

delete_user(u, m, user_id, f) ==
    IF f.kind = "connect"
    THEN [raised |-> "OperationalError", users |-> u, metadata |-> m]
    ELSE IF user_id \notin DOMAIN u
    THEN \* cursor.rowcount == 0
         [raised |-> "ValueError", users |-> u, metadata |-> m]
    ELSE IF f.kind = "commit"
    THEN [raised |-> "OperationalError", users |-> u, metadata |-> m]
    ELSE [raised |-> "none",
          users |-> [x \in DOMAIN u \ {user_id} |-> u[x]],
          metadata |-> DeleteCascade(m, user_id)]

\* ORDER BY created_at DESC: ids are handed out in creation order
RECURSIVE NewestFirst(_)
NewestFirst(ids) ==
    IF ids = {} THEN <<>>
    ELSE LET top == CHOOSE x \in ids : \A y \in ids : y <= x
         IN  <<top>> \o NewestFirst(ids \ {top})

\* LIMIT limit OFFSET offset
Page(sq, limit, offset) ==
    SubSeq(sq, offset + 1, IF offset + limit < Len(sq) THEN offset + limit ELSE Len(sq))

ListedColumns == {"email", "first_name", "last_name"}

\* list_users, were it to SELECT *
list_users_all_columns(u, limit, offset, f) ==
    LET ids == Page(NewestFirst(DOMAIN u), limit, offset)
    IN  IF f.kind = "connect" \/ f.kind = "select"
        THEN [raised |-> "OperationalError", users |-> <<>>, total |-> 0,
              limit |-> limit, offset |-> offset]
        ELSE [raised |-> "none",
              users |-> [i \in 1..Len(ids) |->
                            [id |-> ids[i],
                             columns |-> u[ids[i]]]],
              total |-> Cardinality(DOMAIN u), limit |-> limit, offset |-> offset]

list_users(u, limit, offset, f) ==
    LET ids == Page(NewestFirst(DOMAIN u), limit, offset)
    IN  IF f.kind = "connect" \/ f.kind = "select"
        THEN [raised |-> "OperationalError", users |-> <<>>, total |-> 0,
              limit |-> limit, offset |-> offset]
        ELSE [raised |-> "none",
              users |-> [i \in 1..Len(ids) |->
                            [id |-> ids[i],
                             columns |-> [c \in ListedColumns |-> u[ids[i]][c]]]],
              total |-> Cardinality(DOMAIN u), limit |-> limit, offset |-> offset]

\* ORDER BY accessed_at DESC over rows kept in insertion order
NewestRowsFirst(rows) == [i \in 1..Len(rows) |-> rows[Len(rows) + 1 - i]]

\* the rows of one user, or every row when no user_id is given
AuditRowsOf(a, user_id) ==
    LET match(row) == user_id = NoUserId \/ row.user_id = user_id
    IN  SelectSeq(a, match)

get_audit_trail(a, user_id, limit, f) ==
    IF f.kind = "connect" \/ f.kind = "select"
    THEN [raised |-> "OperationalError", audit_records |-> <<>>, total |-> 0]
    ELSE The({ [raised |-> "none", audit_records |-> rows, total |-> Len(rows)] :
               rows \in {Page(NewestRowsFirst(AuditRowsOf(a, user_id)), limit, 0)} })

---------------------------------------------------------------------------
(* The packaged handler's routes (lambda_function.py) *)

DECRYPTION_FAILED == <<"[DECRYPTION_FAILED]">>

Raise(exc, error, u, m, n, a, w) == Out(exc, error, NoResp, u, m, n, a, w)

\* for field_name in data.keys(): log_audit(user_id, field_name, 'encrypt')
RECURSIVE AuditEach(_, _, _, _, _)
AuditEach(acc, user_id, names, f, i) ==
    IF i > Len(FieldOrder) THEN acc
    ELSE IF FieldOrder[i] \notin names THEN AuditEach(acc, user_id, names, f, i + 1)
    ELSE The({ AuditEach([audit |-> l.audit,
                          warned |-> acc.warned \/ l.raised # "none"],
                         user_id, names, f, i + 1) :
               l \in {log_audit(acc.audit, user_id, FieldOrder[i], "encrypt", TRUE, f)} })

\* the dict handle_create_user_operation hands to store_encrypted_user
EncryptedResult(results) ==
    LET plain == {fn \in DOMAIN results : results[fn].level = 1}
        enc == DOMAIN results \ plain
    IN  [fields |-> [k \in plain \cup {WithSuffix(fn) : fn \in enc} |->
                        IF k \in plain THEN results[k].value
                        ELSE results[CHOOSE fn \in enc : WithSuffix(fn) = k].value],
         metadata |-> [fn \in enc |->
                        [level |-> results[fn].level,
                         method |-> results[fn].method,
                         app_key_version |-> results[fn].app_key_version,
                         kms_key |-> results[fn].kms_key]]]

handle_create_user_operation(u, m, n, a, keys, event, f) ==
    IF DOMAIN event.data = {}
    THEN Raise("ValueError", "missing data", u, m, n, a, FALSE)
    ELSE The({
      IF \E fn \in DOMAIN results : results[fn].raised # "none"
      THEN Raise(results[CHOOSE fn \in DOMAIN results :
                            results[fn].raised # "none"].raised,
                 "encrypt", u, m, n, a, FALSE)
      ELSE The({
        IF s.raised # "none"
        THEN Raise(s.raised, "store", s.users, s.metadata, s.nextId, a, FALSE)
        ELSE The({
          Out("none", "none",
              Resp(200, TRUE, "none", "none", s.user_id, EmptyData, <<>>,
                   0),
              s.users, s.metadata, s.nextId, logged.audit, logged.warned) :
          logged \in {AuditEach([audit |-> a, warned |-> FALSE], s.user_id,
                                DOMAIN event.data, f, 1)} }) :
        s \in {store_encrypted_user(u, m, n, EncryptedResult(results), f)} }) :
      \* if value is None: continue
      results \in {[fn \in {x \in DOMAIN event.data : event.data[x] # NULL} |->
                      encrypt_field(EnvFor(keys, f, fn), fn, event.data[fn])]} })

\* handle_get_user_operation's loop over the row's columns, from column i on
RECURSIVE GetUserLoop(_, _, _, _, _, _, _)
GetUserLoop(acc, user_id, user_dict, md, keys, f, i) ==
    IF i > Len(PackagedColumnSeq) \/ acc.raised # "none" THEN acc
    ELSE
    LET field_name == PackagedColumnSeq[i]
        value == user_dict[field_name]
        original_field == StripSuffix(field_name)
        field_metadata == IF original_field \in DOMAIN md THEN md[original_field]
                          ELSE NoMetadata
        put(k, v) == [x \in DOMAIN acc.data \cup {k} |-> IF x = k THEN v ELSE acc.data[x]]
    IN  IF value = NULL
        THEN GetUserLoop(acc, user_id, user_dict, md, keys, f, i + 1)
        ELSE IF ~EndsWithEncrypted(field_name)
        THEN GetUserLoop([acc EXCEPT !.data = put(field_name, value)],
                         user_id, user_dict, md, keys, f, i + 1)
        ELSE The({
          IF d.raised # "none"
          THEN \* except Exception: raise
               [acc EXCEPT !.raised = d.raised]
          ELSE The({
            GetUserLoop([raised |-> "none", data |-> put(original_field, d.value),
                         audit |-> l.audit,
                         warned |-> acc.warned \/ l.raised # "none"],
                        user_id, user_dict, md, keys, f, i + 1) :
            l \in {log_audit(acc.audit, user_id, original_field, "decrypt", TRUE, f)} }) :
          d \in {decrypt_field(EnvFor(keys, f, original_field), original_field,
                               value, field_metadata)} })

handle_get_user_operation(u, m, n, a, keys, event, f) ==
    IF event.user_id = NoUserId
    THEN Raise("ValueError", "missing user_id", u, m, n, a, FALSE)
    ELSE The({
      IF r.raised # "none"
      THEN Raise(r.raised, r.error, u, m, n, a, FALSE)
      ELSE The({
        IF g.raised # "none"
        THEN Raise(g.raised, "decrypt", u, m, n, g.audit, g.warned)
        ELSE Out("none", "none",
                 Resp(200, TRUE, "none", "none", event.user_id, g.data, <<>>, 0),
                 u, m, n, g.audit, g.warned) :
        g \in {GetUserLoop([raised |-> "none", data |-> EmptyData, audit |-> a,
                            warned |-> FALSE],
                           event.user_id, r.user_dict, r.metadata, keys, f, 1)} }) :
      r \in {retrieve_encrypted_user(u, m, event.user_id, f)} })

handle_list_users_operation(u, m, n, a, event, f) ==
    The({ IF result.raised # "none"
          THEN Raise(result.raised, "db", u, m, n, a, FALSE)
          ELSE Out("none", "none",
                   Resp(200, TRUE, "none", "none", NoUserId, EmptyData,
                        result.users, result.total),
                   u, m, n, a, FALSE) :
          result \in {list_users(u, event.limit, event.offset, f)} })

\* handle_delete_user_operation, were the deletion to take the user's audit
\* rows with it
handle_delete_user_purging_audit(u, m, n, a, event, f) ==
    IF event.user_id = NoUserId
    THEN Raise("ValueError", "missing user_id", u, m, n, a, FALSE)
    ELSE The({
      IF d.raised # "none"
      THEN Raise(d.raised, IF d.raised = "ValueError" THEN "not found" ELSE "db",
                 u, m, n, a, FALSE)
      ELSE Out("none", "none",
               Resp(200, TRUE, "none", "none", event.user_id, EmptyData, <<>>, 0),
               d.users, d.metadata, n,
               LET others(row) == row.user_id # event.user_id
               IN  SelectSeq(a, others),
               FALSE) :
      d \in {delete_user(u, m, event.user_id, f)} })

handle_delete_user_operation(u, m, n, a, event, f) ==
    IF event.user_id = NoUserId
    THEN Raise("ValueError", "missing user_id", u, m, n, a, FALSE)
    ELSE The({
      IF d.raised # "none"
      THEN Raise(d.raised, IF d.raised = "ValueError" THEN "not found" ELSE "db",
                 u, m, n, a, FALSE)
      ELSE Out("none", "none",
               Resp(200, TRUE, "none", "none", event.user_id, EmptyData, <<>>, 0),
               d.users, d.metadata, n, a, FALSE) :
      d \in {delete_user(u, m, event.user_id, f)} })

handle_audit_trail_operation(u, m, n, a, event, f) ==
    The({ IF result.raised # "none"
          THEN Raise(result.raised, "db", u, m, n, a, FALSE)
          ELSE Out("none", "none",
                   Resp(200, TRUE, "none", "none", event.user_id, EmptyData,
                        result.audit_records, result.total),
                   u, m, n, a, FALSE) :
          result \in {get_audit_trail(a, event.user_id, event.limit, f)} })

\* What can fail under a health check: KMS, Secrets Manager, the database
\* connection, and the schema's validation. For the health route the fault's
\* field is the set of these that fail.
HealthFailures == {"kms", "secrets_manager", "database", "database_schema"}

FailingIn(f) == IF f.kind = "probes" THEN f.field ELSE {}

\* whether the try block of a component's probe runs to its end:
\* kms.describe_key; get_app_keys; get_db_connection (the credentials come
\* from Secrets Manager) and close; validate_database_schema()['overall']
ProbeSucceeds(component, failing) ==
    CASE component = "kms" -> "kms" \notin failing
      [] component = "secrets_manager" -> "secrets_manager" \notin failing
      [] component = "database" ->
           "secrets_manager" \notin failing /\ "database" \notin failing
      [] component = "database_schema" ->
           /\ "secrets_manager" \notin failing
           /\ "database" \notin failing
           /\ "database_schema" \notin failing
      [] OTHER -> TRUE

\* the status a probe leaves for its component
ProbeStatus(component, failing) ==
    IF ProbeSucceeds(component, failing) THEN "healthy"
    ELSE IF component = "database_schema" THEN "validation failed"
    ELSE "error"

HealthProbes == <<"kms", "secrets_manager", "database", "database_schema">>

\* handle_health_check, were the first failing probe to end the check: the
\* components after it keep 'unknown'
handle_health_check_aborting(u, m, n, a, event, f) ==
    LET failing == FailingIn(f)
        reached(i) == \A j \in 1..(i - 1) : ProbeSucceeds(HealthProbes[j], failing)
    IN  Out("none", "none",
            Resp(200, TRUE, "none", "none", NoUserId,
                 [c \in {"lambda"} \cup SeqRange(HealthProbes) |->
                    IF c = "lambda" THEN "healthy"
                    ELSE IF reached(CHOOSE i \in 1..Len(HealthProbes) :
                                       HealthProbes[i] = c)
                    THEN ProbeStatus(c, failing)
                    ELSE "unknown"],
                 <<>>, 0),
            u, m, n, a, FALSE)

handle_health_check(u, m, n, a, event, f) ==
    LET failing == FailingIn(f)
    IN  Out("none", "none",
            Resp(200, TRUE, "none", "none", NoUserId,
                 [c \in {"lambda"} \cup SeqRange(HealthProbes) |->
                    IF c = "lambda" THEN "healthy"
                    ELSE ProbeStatus(c, failing)],
                 <<>>, 0),
            u, m, n, a, FALSE)

\* the operations lambda_handler has a route for
PackagedOperations == {"create_user", "get_user", "encrypt", "decrypt", "health",
                       "list_users", "delete_user", "audit_trail"}

\* lambda_handler, were its except clause to re-raise
lambda_handler_reraising(u, m, n, a, keys, event, f) ==
    The({ IF o.raised # "none"
          THEN \* except Exception as e
               o
          ELSE o :
          o \in {CASE event.operation = "create_user" ->
                        handle_create_user_operation(u, m, n, a, keys, event, f)
                   [] event.operation = "get_user" ->
                        handle_get_user_operation(u, m, n, a, keys, event, f)
                   [] event.operation = "list_users" ->
                        handle_list_users_operation(u, m, n, a, event, f)
                   [] event.operation = "delete_user" ->
                        handle_delete_user_operation(u, m, n, a, event, f)
                   [] event.operation = "health" ->
                        handle_health_check(u, m, n, a, event, f)
                   [] event.operation = "audit_trail" ->
                        handle_audit_trail_operation(u, m, n, a, event, f)
                   [] event.operation = "" ->
                        \* if not operation: raise ValueError
                        Raise("ValueError", "missing operation", u, m, n, a, FALSE)
                   [] OTHER ->
                        Raise("ValueError", "unknown operation", u, m, n, a, FALSE)} })

\* lambda_handler: the route's envelope, or the 500 envelope of its exception
lambda_handler(u, m, n, a, keys, event, f) ==
    The({ IF o.raised # "none"
          THEN \* except Exception as e
               [o EXCEPT !.resp = Resp(500, FALSE, o.raised, o.error, NoUserId,
                                       EmptyData, <<>>, 0)]
          ELSE o :
          o \in {CASE event.operation = "create_user" ->
                        handle_create_user_operation(u, m, n, a, keys, event, f)
                   [] event.operation = "get_user" ->
                        handle_get_user_operation(u, m, n, a, keys, event, f)
                   [] event.operation = "list_users" ->
                        handle_list_users_operation(u, m, n, a, event, f)
                   [] event.operation = "delete_user" ->
                        handle_delete_user_operation(u, m, n, a, event, f)
                   [] event.operation = "health" ->
                        handle_health_check(u, m, n, a, event, f)
                   [] event.operation = "audit_trail" ->
                        handle_audit_trail_operation(u, m, n, a, event, f)
                   [] event.operation = "" ->
                        \* if not operation: raise ValueError
                        Raise("ValueError", "missing operation", u, m, n, a, FALSE)
                   [] OTHER ->
                        Raise("ValueError", "unknown operation", u, m, n, a, FALSE)} })

---------------------------------------------------------------------------
(* The generated handler (lambda_function_generated.py) *)

GeneratedColumnSeq ==
    <<"email", "first_name", "last_name", "phone", "address_encrypted",
      "date_of_birth_encrypted", "ip_address_encrypted", "ssn_encrypted",
      "bank_account_encrypted", "credit_card_encrypted">>

GeneratedColumns == SeqRange(GeneratedColumnSeq)

\* EncryptionHandler.FIELD_MAPPING
FIELD_MAPPING ==
    [k \in {"email", "first_name", "last_name", "phone", "address",
            "date_of_birth", "ip_address", "ssn", "bank_account", "credit_card"} |->
        IF k \in {"email", "first_name", "last_name", "phone"} THEN k
        ELSE WithSuffix(k)]

\* get_user's reverse_mapping.get(db_field, db_field)
reverse_mapping(db_field) ==
    IF db_field \in {"email", "first_name", "last_name", "phone"} THEN db_field
    ELSE StripSuffix(db_field)

\* the generated PIIClassifier: levels 1 and 2 as the packaged one, its own
\* level-3 list
GenLevel3Names == {"ssn", "social_security_number", "social_security", "tax_id",
                   "bank_account", "account_number", "routing_number",
                   "credit_card", "card_number", "cvv", "credit_card_number",
                   "passport_number", "drivers_license", "national_id"}

gen_classify_pii_level(field_name) ==
    LET field_lower == LowerStrip(field_name)
    IN  IF field_lower \in Level1Names THEN 1
        ELSE IF field_lower \in Level2Names THEN 2
        ELSE IF field_lower \in GenLevel3Names THEN 3
        ELSE 1

GenEncResult(db_field, value, level, field_name, method, kms_key, raised) ==
    [db_field |-> db_field, value |-> value, level |-> level,
     field_name |-> field_name, method |-> method, kms_key |-> kms_key,
     raised |-> raised]

gen_encrypt_field(env, field_name, value) ==
    LET db_field == IF field_name \in DOMAIN FIELD_MAPPING
                    THEN FIELD_MAPPING[field_name] ELSE field_name
        level == gen_classify_pii_level(field_name)
    IN  IF IsEmpty(value)
        THEN GenEncResult(db_field, NULL, 1, field_name, "none", "none", "none")
        ELSE CASE level = 1 ->
                    GenEncResult(db_field, value, 1, field_name, "rds_only", "none", "none")
               [] level = 2 ->
                    IF ~env.kms_ok
                    THEN GenEncResult(db_field, NULL, 2, field_name, "none", "none",
                                      "ClientError")
                    ELSE GenEncResult(db_field,
                                      B64Encode(KmsEncrypt(level2_kms_alias, value)),
                                      2, field_name, "kms_level2", level2_kms_alias,
                                      "none")
               [] level = 3 ->
                    IF ~env.kms_ok
                    THEN GenEncResult(db_field, NULL, 3, field_name, "none", "none",
                                      "ClientError")
                    ELSE GenEncResult(db_field,
                                      B64Encode(KmsEncrypt(level3_kms_alias, value)),
                                      3, field_name, "kms_level3", level3_kms_alias,
                                      "none")

gen_decrypt_field(env, field_name, encrypted_value, level) ==
    IF IsEmpty(encrypted_value) THEN DecResult(encrypted_value, "none")
    ELSE IF level = 1 THEN DecResult(encrypted_value, "none")
    ELSE IF level \in {2, 3}
    THEN LET ciphertext == B64Decode(encrypted_value)
             response == KmsDecrypt(ciphertext.value)
         IN  IF ~ciphertext.ok THEN DecResult(NULL, "Error")
             ELSE IF ~env.kms_ok \/ ~response.ok THEN DecResult(NULL, "ClientError")
             ELSE DecResult(response.value, "none")
    ELSE DecResult(NULL, "none")

\* the metadata inserts of DatabaseOperations.create_user, one per record
RECURSIVE GenInsertMetadata(_, _, _, _, _)
GenInsertMetadata(m, user_id, results, f, i) ==
    IF i > Len(FieldOrder) THEN [metadata |-> m, raised |-> "none"]
    ELSE LET input_field == FieldOrder[i]
         IN  IF input_field \notin DOMAIN results
             THEN GenInsertMetadata(m, user_id, results, f, i + 1)
             ELSE IF f.kind = "insert_meta" /\ f.field = input_field
             THEN [metadata |-> m, raised |-> "DatabaseError"]
             ELSE GenInsertMetadata(
                      m \cup {[user_id |-> user_id, field_name |-> input_field,
                               pii_level |-> results[input_field].level,
                               app_key_version |-> 0,
                               kms_key_alias |-> results[input_field].kms_key,
                               encryption_algorithm |-> results[input_field].method]},
                      user_id, results, f, i + 1)

\* DatabaseOperations.create_user
gen_create_user(u, m, n, keys, user_data, f) ==
    LET mapped == {fn \in DOMAIN user_data : fn \in DOMAIN FIELD_MAPPING}
        user_id == n
        fail(exc) == [raised |-> exc, users |-> u, metadata |-> m, nextId |-> n,
                      user_id |-> NoUserId]
    IN  IF f.kind = "connect" THEN fail("OperationalError")
        ELSE The({
          LET failed == {fn \in mapped : results[fn].raised # "none"}
              available_fields == {results[fn].db_field : fn \in mapped}
                                     \cap GeneratedColumns
              row == [c \in GeneratedColumns |->
                         IF c \in available_fields
                         THEN results[CHOOSE fn \in mapped :
                                         results[fn].db_field = c].value
                         ELSE NULL]
          IN  IF failed # {} THEN fail(results[CHOOSE fn \in failed : TRUE].raised)
              ELSE IF available_fields = {} THEN fail("ValueError")
              ELSE IF f.kind = "insert_user" THEN fail("DatabaseError")
              ELSE The({
                IF mi.raised # "none" THEN fail(mi.raised)
                ELSE IF f.kind = "commit" THEN fail("OperationalError")
                ELSE [raised |-> "none",
                      users |-> [x \in DOMAIN u \cup {user_id} |->
                                    IF x = user_id THEN row ELSE u[x]],
                      metadata |-> mi.metadata, nextId |-> n + 1,
                      user_id |-> user_id] :
                mi \in {GenInsertMetadata(m, user_id, results, f, 1)} }) :
          results \in {[fn \in mapped |->
                          gen_encrypt_field(EnvFor(keys, f, fn), fn, user_data[fn])]} })

\* DatabaseOperations.get_user: the result dict, field by field
gen_get_user(u, m, keys, user_id, f) ==
    LET rows == {r \in m : r.user_id = user_id}
        metadata_map == [fn \in {r.field_name : r \in rows} |->
                            (CHOOSE r \in rows : r.field_name = fn).pii_level]
        user_data == u[user_id]
        one(db_field, input_field, value) ==
            IF value # NULL /\ input_field \in DOMAIN metadata_map
            THEN IF metadata_map[input_field] > 1
                 THEN The({ IF d.raised # "none"
                            THEN \* except Exception
                                 DECRYPTION_FAILED
                            ELSE d.value :
                            d \in {gen_decrypt_field(EnvFor(keys, f, input_field),
                                                     input_field, value,
                                                     metadata_map[input_field])} })
                 ELSE value
            ELSE value
    IN  IF f.kind = "connect" \/ f.kind = "select"
        THEN [raised |-> "OperationalError", found |-> FALSE, data |-> EmptyData]
        ELSE IF user_id \notin DOMAIN u
        THEN \* return None
             [raised |-> "none", found |-> FALSE, data |-> EmptyData]
        ELSE [raised |-> "none", found |-> TRUE,
              data |-> [input_field \in {reverse_mapping(c) : c \in GeneratedColumns} |->
                          The({ one(c, input_field, user_data[c]) :
                                c \in {x \in GeneratedColumns :
                                          reverse_mapping(x) = input_field} })]]

\* DatabaseOperations.list_users
gen_list_users(u, limit, offset, f) ==
    LET ids == Page(NewestFirst(DOMAIN u), limit, offset)
    IN  IF f.kind = "connect" \/ f.kind = "select"
        THEN [raised |-> "OperationalError", users |-> <<>>, total |-> 0]
        ELSE [raised |-> "none",
              users |-> [i \in 1..Len(ids) |->
                            [id |-> ids[i],
                             columns |-> [c \in ListedColumns |-> u[ids[i]][c]]]],
              total |-> Cardinality(DOMAIN u)]

\* DatabaseOperations.get_audit_trail: the listed columns of each row
gen_get_audit_trail(a, user_id, limit, f) ==
    IF f.kind = "connect" \/ f.kind = "select"
    THEN [raised |-> "OperationalError", audit_logs |-> <<>>]
    ELSE The({ [raised |-> "none",
                audit_logs |-> [i \in 1..Len(rows) |->
                                  [user_id |-> rows[i].user_id,
                                   operation |-> rows[i].operation,
                                   accessed_by |-> rows[i].accessed_by,
                                   success |-> rows[i].success]]] :
               rows \in {Page(NewestRowsFirst(AuditRowsOf(a, user_id)), limit, 0)} })

\* the operations the generated lambda_handler has a branch for
GeneratedOperations == {"health", "create_user", "get_user", "list_users",
                        "audit_trail"}

\* the generated lambda_handler
gen_lambda_handler(u, m, n, a, keys, event, f) ==
    LET err(exc, error) == Out(exc, error,
                               Resp(500, FALSE, exc, error, NoUserId, EmptyData, <<>>, 0),
                               u, m, n, a, FALSE)
    IN  CASE event.operation = "create_user" ->
               IF DOMAIN event.data = {} THEN err("ValueError", "missing data")
               ELSE The({
                 IF c.raised # "none" THEN err(c.raised, "create")
                 ELSE Out("none", "none",
                          Resp(200, TRUE, "none", "none", c.user_id, EmptyData, <<>>, 0),
                          c.users, c.metadata, c.nextId, a, FALSE) :
                 c \in {gen_create_user(u, m, n, keys, event.data, f)} })
          [] event.operation = "get_user" ->
               IF event.user_id = NoUserId THEN err("ValueError", "missing user_id")
               ELSE The({
                 IF g.raised # "none" THEN err(g.raised, "db")
                 ELSE IF ~g.found
                 THEN Out("none", "none",
                          Resp(404, FALSE, "none", "not found", event.user_id,
                               EmptyData, <<>>, 0),
                          u, m, n, a, FALSE)
                 ELSE Out("none", "none",
                          Resp(200, TRUE, "none", "none", event.user_id, g.data, <<>>, 0),
                          u, m, n, a, FALSE) :
                 g \in {gen_get_user(u, m, keys, event.user_id, f)} })
          [] event.operation = "list_users" ->
               The({
                 IF l.raised # "none" THEN err(l.raised, "db")
                 ELSE Out("none", "none",
                          Resp(200, TRUE, "none", "none", NoUserId, EmptyData,
                               l.users, l.total),
                          u, m, n, a, FALSE) :
                 l \in {gen_list_users(u, event.limit, event.offset, f)} })
          [] event.operation = "health" ->
               \* kms.describe_key, get_db_credentials, get_db_connection
               Out("none", "none",
                   Resp(200, TRUE, "none", "none", NoUserId,
                        [c \in {"lambda", "kms", "secrets_manager", "database"} |->
                           IF c = "lambda" THEN "healthy"
                           ELSE ProbeStatus(c, FailingIn(f))],
                        <<>>, 0),
                   u, m, n, a, FALSE)
          [] event.operation = "audit_trail" ->
               The({
                 IF t.raised # "none" THEN err(t.raised, "db")
                 ELSE Out("none", "none",
                          Resp(200, TRUE, "none", "none", event.user_id, EmptyData,
                               t.audit_logs, 0),
                          u, m, n, a, FALSE) :
                 t \in {gen_get_audit_trail(a, event.user_id, event.limit, f)} })
          [] event.operation = "" ->
               \* if not operation: raise ValueError
               err("ValueError", "missing operation")
          [] OTHER ->
               Out("none", "none",
                   Resp(400, FALSE, "none", "unknown operation", NoUserId,
                        EmptyData, <<>>, 0),
                   u, m, n, a, FALSE)

---------------------------------------------------------------------------
(* The backend's view of a request (pii_backend) *)

NoReq == Event("none", EmptyData, NoUserId, 0, 0)

\* Settings.lambda_retry_attempts, as shipped
lambda_retry_attempts == 3

\* an HTTP request: the endpoint function it is routed to, its Authorization
\* header, and the parameters the endpoints read
HttpRequest(endpoint, authorization, user_id, limit, offset) ==
    [endpoint |-> endpoint, authorization |-> authorization, user_id |-> user_id,
     limit |-> limit, offset |-> offset]

NoHttp == HttpRequest("none", "none", NoUserId, 0, 0)

\* The backend between requests, and the bookkeeping of the request it is
\* serving: the payload of LambdaClient._invoke_lambda, the index of the
\* attempt it is in, the invoke calls it has made, the waits it has slept,
\* the rows its invocations have stored, the Lambda's answer and the HTTP
\* status sent back.
IdleApi(retry_attempts) ==
    [phase |-> "idle", retry_attempts |-> retry_attempts, request |-> NoHttp,
     payload |-> NoReq, attempt |-> 0, invoked |-> 0, slept |-> <<>>,
     stored |-> 0, result |-> NoResp, outcome |-> "none", status |-> 0]

---------------------------------------------------------------------------
(* The system: one deployed handler, its database, the secret store *)

Init ==
    /\ deployed \in {"packaged", "generated"}
    /\ users = [x \in {} |-> NULL]
    /\ metadata = {}
    /\ audit = <<>>
    /\ nextId = 1
    /\ secret = InitSecret
    /\ supplied = [x \in {} |-> NULL]
    /\ deleted = {}
    /\ req = NoReq
    /\ fault = NoFault
    /\ resp = NoResp
    /\ warned = FALSE
    /\ held = NoHeld
    /\ dec = NoDec
    /\ api = IdleApi(lambda_retry_attempts)
    /\ proc = IdleProc
    /\ conn = IdleConn
    /\ race = IdleRace

\* the deployed handler's answer to an event
Handle(event, f) ==
    IF deployed = "packaged"
    THEN lambda_handler(users, metadata, nextId, audit, secret, event, f)
    ELSE gen_lambda_handler(users, metadata, nextId, audit, secret, event, f)

Invoke(event, f) ==
    /\ req = NoReq
    /\ \E o \in {Handle(event, f)} :
         /\ Len(o.audit) <= MaxAudit
         /\ users' = o.users
         /\ metadata' = o.metadata
         /\ nextId' = o.nextId
         /\ audit' = o.audit
         /\ resp' = o.resp
         /\ warned' = o.warned
         /\ supplied' =
              IF event.operation = "create_user" /\ o.resp.success
              THEN [x \in DOMAIN supplied \cup {o.resp.user_id} |->
                       IF x = o.resp.user_id
                       THEN [fn \in {y \in DOMAIN event.data : ~IsEmpty(event.data[y])} |->
                                event.data[fn]]
                       ELSE supplied[x]]
              ELSE IF event.operation = "delete_user" /\ o.resp.success
              THEN [x \in DOMAIN supplied \ {event.user_id} |-> supplied[x]]
              ELSE supplied
         /\ deleted' = IF event.operation = "delete_user" /\ o.resp.success
                       THEN deleted \cup {event.user_id} ELSE deleted
    /\ req' = event
    /\ fault' = f
    /\ UNCHANGED <<deployed, secret, held, dec, sidevars>>

MainFaults(kinds, fields) ==
    {Fault(k, "none", "none") : k \in kinds \ {"kms", "insert_meta"}}
    \cup {Fault(k, fn, "none") : k \in kinds \cap {"kms", "insert_meta"}, fn \in fields}

\* the main-path failures, each with every fate of the audit writes
WithAuditFaults(faults) == {Fault(f.kind, f.field, au) : f \in faults, au \in AuditFaults}

CreateUser ==
    /\ nextId <= MaxUsers
    /\ \E data \in DataChoices :
         \E f \in WithAuditFaults(
                    MainFaults({"none", "kms", "app_keys", "connect", "insert_user",
                                "insert_meta", "commit"}, DOMAIN data)) :
            Invoke(Event("create_user", data, NoUserId, 0, 0), f)

\* the fields whose ciphertext a row holds
EncryptedFieldsOf(user_id) ==
    IF user_id \notin DOMAIN users THEN {}
    ELSE {StripSuffix(c) : c \in {x \in DOMAIN users[user_id] :
                                     EndsWithEncrypted(x) /\ users[user_id][x] # NULL}}

GetUser ==
    \E user_id \in 0..MaxUsers :
      \E f \in WithAuditFaults(
                 MainFaults({"none", "kms", "app_keys", "connect", "select"},
                            EncryptedFieldsOf(user_id))) :
         Invoke(Event("get_user", EmptyData, user_id, 0, 0), f)

ListUsers ==
    \E limit \in 1..MaxUsers, offset \in 0..1 :
      \E f \in MainFaults({"none", "connect"}, {}) :
         Invoke(Event("list_users", EmptyData, NoUserId, limit, offset), f)

DeleteUser ==
    \E user_id \in 0..MaxUsers :
      \E f \in MainFaults({"none", "connect", "commit"}, {}) :
         Invoke(Event("delete_user", EmptyData, user_id, 0, 0), f)

\* limit: one row, or the route's default of 100
AuditTrail ==
    \E user_id \in 0..MaxUsers, limit \in {1, 100} :
      \E f \in MainFaults({"none", "connect"}, {}) :
         Invoke(Event("audit_trail", EmptyData, user_id, limit, 0), f)

Health ==
    \E failing \in SUBSET HealthFailures :
       Invoke(Event("health", EmptyData, NoUserId, 0, 0),
              Fault("probes", failing, "none"))

\* an event without 'operation', or with one no handler has a route for
OtherOperations == {"", "purge_user"}

UnknownOperation ==
    \E operation \in OtherOperations :
      \E f \in MainFaults({"none", "app_keys", "connect"}, {}) :
         Invoke(Event(operation, EmptyData, NoUserId, 0, 0), f)

Rotate ==
    /\ req = NoReq
    /\ RotateKey
    /\ UNCHANGED <<dbvars, held, dec, sidevars>>

\* the caller takes the response
Deliver ==
    /\ req # NoReq
    /\ req' = NoReq
    /\ fault' = NoFault
    /\ resp' = NoResp
    /\ warned' = FALSE
    /\ UNCHANGED <<deployed, users, metadata, audit, nextId, secret, supplied,
                   deleted, held, dec, sidevars>>

Next ==
    \/ CreateUser
    \/ GetUser
    \/ ListUsers
    \/ DeleteUser
    \/ AuditTrail
    \/ Health
    \/ UnknownOperation
    \/ Rotate
    \/ Deliver

Spec == Init /\ [][Next]_vars

---------------------------------------------------------------------------
(* encrypt_field and decrypt_field on their own *)

InitField == Init /\ deployed = "packaged"

NextField == FieldEncrypt \/ FieldDecrypt \/ FieldRotate

SpecField == InitField /\ [][NextField]_vars

---------------------------------------------------------------------------
(* The backend in front of the deployed handler (pii_backend) *)

MaxStored == 3

MaxRetry == 3

\* Settings.api_key
api_key == "dev-api-key-change-in-production"

\* the bearer token of a request: none, the configured key, another one
Credentials == {"none", api_key, "another-key"}

ProtectedEndpoints ==
    {"create_user", "get_user", "list_users", "get_audit_trail", "get_all_audit_logs"}

\* verify_api_key accepting every bearer token that is present
verify_api_key_any_token(credentials) ==
    IF credentials = "none" THEN 403
    ELSE 0

\* HTTPBearer and verify_api_key: the status the dependency rejects the request
\* with, 0 when it lets the request through to the endpoint function
verify_api_key(credentials) ==
    IF credentials = "none" THEN 403
    ELSE IF credentials # api_key THEN 401
    ELSE 0

\* the parameter checks with the list bound applied to the audit limit
ValidateParameters_audit_to_100(request) ==
    CASE request.endpoint = "list_users" ->
           IF request.limit < 1 \/ request.limit > 100 THEN 400
           ELSE IF request.offset < 0 THEN 400
           ELSE 0
      [] request.endpoint \in {"get_audit_trail", "get_all_audit_logs"} ->
           IF request.limit < 1 \/ request.limit > 100 THEN 400 ELSE 0
      [] OTHER -> 0

\* the parameter checks of list_users, get_audit_trail and get_all_audit_logs
ValidateParameters(request) ==
    CASE request.endpoint = "list_users" ->
           IF request.limit < 1 \/ request.limit > 100 THEN 400
           ELSE IF request.offset < 0 THEN 400
           ELSE 0
      [] request.endpoint \in {"get_audit_trail", "get_all_audit_logs"} ->
           IF request.limit < 1 \/ request.limit > 1000 THEN 400 ELSE 0
      [] OTHER -> 0

\* the body POST /users is called with
BackendUserData == [fn \in {"email"} |-> <<"a">>]

\* the payload each LambdaClient method hands to _invoke_lambda
PayloadOf(request) ==
    CASE request.endpoint = "create_user" ->
           Event("create_user", BackendUserData, NoUserId, 0, 0)
      [] request.endpoint = "get_user" ->
           Event("get_user", EmptyData, request.user_id, 0, 0)
      [] request.endpoint = "list_users" ->
           Event("list_users", EmptyData, NoUserId, request.limit, request.offset)
      [] request.endpoint = "get_audit_trail" ->
           Event("audit_trail", EmptyData, request.user_id, request.limit, 0)
      [] request.endpoint = "get_all_audit_logs" ->
           Event("audit_trail", EmptyData, NoUserId, request.limit, 0)

\* the status an endpoint answers a Lambda result with
StatusOf(endpoint, result) ==
    IF result.success THEN 200
    ELSE IF endpoint = "get_user" /\ result.statusCode = 404 THEN 404
    ELSE 500

\* the limits and offsets requests carry, around the endpoints' bounds
Limits == {0, 1, 100, 101, 1000, 1001}

Offsets == {-1, 0, 1}

HttpRequests ==
    {HttpRequest("create_user", c, NoUserId, 0, 0) : c \in Credentials}
    \cup {HttpRequest("get_user", c, id, 0, 0) : c \in Credentials, id \in 1..MaxStored}
    \cup {HttpRequest("list_users", c, NoUserId, l, o) :
             c \in Credentials, l \in Limits, o \in Offsets}
    \cup {HttpRequest("get_audit_trail", c, id, l, 0) :
             c \in Credentials, id \in 1..MaxStored, l \in Limits}
    \cup {HttpRequest("get_all_audit_logs", c, NoUserId, l, 0) :
             c \in Credentials, l \in Limits}

\* A request arrives: the dependencies, the endpoint's checks, and the start
\* of _invoke_lambda's loop; for range(retry_attempts) empty the loop body
\* never runs, _invoke_lambda returns None and the endpoint's except clause
\* answers the AttributeError of result.get with 500.
Request ==
    /\ api.phase = "idle"
    /\ \E request \in HttpRequests :
         /\ request.endpoint = "create_user"
            => nextId + api.retry_attempts <= MaxStored + 1
         /\ api' =
              IF verify_api_key(request.authorization) # 0
              THEN [api EXCEPT !.phase = "done", !.request = request,
                               !.status = verify_api_key(request.authorization)]
              ELSE IF ValidateParameters(request) # 0
              THEN [api EXCEPT !.phase = "done", !.request = request,
                               !.status = ValidateParameters(request)]
              ELSE IF api.retry_attempts <= 0
              THEN [api EXCEPT !.phase = "done", !.request = request,
                               !.payload = PayloadOf(request),
                               !.outcome = "returned None", !.status = 500]
              ELSE [api EXCEPT !.phase = "invoking", !.request = request,
                               !.payload = PayloadOf(request)]
    /\ UNCHANGED <<dbvars, secret, held, dec, proc, conn, race>>

\* One pass through _invoke_lambda's loop body. The invoke call fails before
\* the function runs ("error"), or the function runs and its response is lost
\* on the way back ("lost"), or the response arrives ("response").
Attempt ==
    /\ api.phase = "invoking"
    /\ \E way \in {"error", "lost", "response"},
          f \in {NoFault, Fault("connect", "none", "none")} :
         \E o \in {IF way = "error"
                   THEN Out("none", "none", NoResp, users, metadata, nextId, audit, FALSE)
                   ELSE Handle(api.payload, f)} :
           /\ users' = o.users
           /\ metadata' = o.metadata
           /\ nextId' = o.nextId
           /\ audit' = o.audit
           /\ IF way = "error"
              THEN UNCHANGED <<req, fault, resp, warned>>
              ELSE /\ req' = api.payload
                   /\ fault' = f
                   /\ resp' = o.resp
                   /\ warned' = o.warned
           /\ api' =
                IF way = "response"
                THEN [api EXCEPT !.phase = "done", !.invoked = @ + 1,
                                 !.stored = @ + (o.nextId - nextId),
                                 !.result = o.resp, !.outcome = "returned",
                                 !.status = StatusOf(api.request.endpoint, o.resp)]
                ELSE IF api.attempt = api.retry_attempts - 1
                THEN [api EXCEPT !.phase = "done", !.invoked = @ + 1,
                                 !.stored = @ + (o.nextId - nextId),
                                 !.outcome = "raised", !.status = 500]
                ELSE [api EXCEPT !.phase = "sleeping", !.invoked = @ + 1,
                                 !.stored = @ + (o.nextId - nextId)]
    /\ UNCHANGED <<deployed, secret, supplied, deleted, held, dec, proc, conn, race>>

\* await asyncio.sleep(2 ** attempt), then the next pass of the loop
Sleep ==
    /\ api.phase = "sleeping"
    /\ api' = [api EXCEPT !.phase = "invoking", !.attempt = @ + 1,
                          !.slept = Append(@, 2 ^ api.attempt)]
    /\ UNCHANGED <<dbvars, secret, held, dec, proc, conn, race>>

\* the HTTP response is sent
Respond ==
    /\ api.phase = "done"
    /\ api' = IdleApi(api.retry_attempts)
    /\ req' = NoReq
    /\ fault' = NoFault
    /\ resp' = NoResp
    /\ warned' = FALSE
    /\ UNCHANGED <<deployed, users, metadata, audit, nextId, secret, supplied,
                   deleted, held, dec, proc, conn, race>>

InitBackend ==
    /\ deployed \in {"packaged", "generated"}
    /\ users = [x \in {} |-> NULL]
    /\ metadata = {}
    /\ audit = <<>>
    /\ nextId = 1
    /\ secret = InitSecret
    /\ supplied = [x \in {} |-> NULL]
    /\ deleted = {}
    /\ req = NoReq
    /\ fault = NoFault
    /\ resp = NoResp
    /\ warned = FALSE
    /\ held = NoHeld
    /\ dec = NoDec
    /\ \E retry_attempts \in 0..MaxRetry : api = IdleApi(retry_attempts)
    /\ proc = IdleProc
    /\ conn = IdleConn
    /\ race = IdleRace

NextBackend == Request \/ Attempt \/ Sleep \/ Respond

SpecBackend == InitBackend /\ [][NextBackend]_vars

\* the loop body and the sleep are not held up for ever
SpecBackendFair == SpecBackend /\ WF_vars(Attempt) /\ WF_vars(Sleep)

---------------------------------------------------------------------------
(* Round trip of encrypt_field and decrypt_field *)

\* C1: for a field name classified level 2 or 3 and a non-empty plaintext v,
\* decrypt_field of encrypt_field's ciphertext, handed the level and the
\* app_key_version encrypt_field reported, returns v (the KMS and the secret
\* store answering, the key set only growing).
C1_RoundTrip ==
    ( /\ dec.called
      /\ classify_pii_level(held.field_name) \in {2, 3}
      /\ ~IsEmpty(held.value)
      /\ dec.md = MetadataOf(held.result)
      /\ dec.kms_ok
      /\ dec.secrets_ok )
    => dec.result = DecResult(held.value, "none")

\* a level-3 value encrypted under key version 1 and read back after the key
\* was rotated
C1_Witness ==
    /\ dec.called
    /\ classify_pii_level(held.field_name) = 3
    /\ held.value = <<"a">>
    /\ held.result.app_key_version = 1
    /\ secret.current_version = 2
    /\ dec.md = MetadataOf(held.result)
    /\ dec.result = DecResult(<<"a">>, "none")

---------------------------------------------------------------------------
(* create_user followed by get_user (packaged handler) *)

\* C2: after a successful create_user, a successful get_user on the returned
\* user_id returns every field that was supplied with a non-empty value under
\* the name it was supplied with, mapped to the value it was supplied with.
C2_EndToEndRoundTrip ==
    ( /\ deployed = "packaged"
      /\ req.operation = "get_user"
      /\ resp.success
      /\ req.user_id \in DOMAIN supplied )
    => \A fn \in DOMAIN supplied[req.user_id] :
          /\ fn \in DOMAIN resp.data
          /\ resp.data[fn] = supplied[req.user_id][fn]

\* get_user answers a user created with a date_of_birth, and the answer has
\* the value under "dob" and nothing under "date_of_birth"
C2_DobRenamed ==
    /\ deployed = "packaged"
    /\ req.operation = "get_user"
    /\ resp.success
    /\ req.user_id \in DOMAIN supplied
    /\ "date_of_birth" \in DOMAIN supplied[req.user_id]
    /\ "date_of_birth" \notin DOMAIN resp.data
    /\ "dob" \in DOMAIN resp.data
    /\ resp.data["dob"] = supplied[req.user_id]["date_of_birth"]

---------------------------------------------------------------------------
(* Key versions under rotation (packaged handler) *)

\* the ciphertext a metadata row describes
CiphertextOf(r) == users[r.user_id][field_mapping[WithSuffix(r.field_name)]]

\* the version of the application key whose token a level-3 ciphertext wraps
LocalKeyTag(ciphertext) == ciphertext[5]

\* C3: the app_key_version of a level-3 metadata row is the version of the key
\* the stored ciphertext was locally encrypted with; whatever the current
\* version has become, get_user decrypts with the stored version and returns
\* the plaintext; decrypt_field told any other version does not return it.
C3_KeyVersionBinding ==
    deployed = "packaged" =>
      /\ \A r \in metadata :
           ( /\ r.pii_level = 3
             /\ r.user_id \in DOMAIN users
             /\ WithSuffix(r.field_name) \in DOMAIN field_mapping ) =>
             /\ Len(CiphertextOf(r)) >= 5
             /\ CiphertextOf(r)[4] = "fernet"
             /\ LocalKeyTag(CiphertextOf(r)) = VerTag(r.app_key_version)
             /\ \A v \in 1..MaxKeyVersion :
                  v # r.app_key_version =>
                    decrypt_field(Env(secret, TRUE, TRUE), r.field_name,
                                  CiphertextOf(r), Metadata(TRUE, 3, TRUE, v)).value
                      # supplied[r.user_id][r.field_name]
      /\ ( /\ req.operation = "get_user"
           /\ fault.kind = "none"
           /\ req.user_id \in DOMAIN users ) =>
             /\ resp.success
             /\ \A r \in metadata :
                  (r.pii_level = 3 /\ r.user_id = req.user_id) =>
                    /\ r.field_name \in DOMAIN resp.data
                    /\ resp.data[r.field_name] = supplied[r.user_id][r.field_name]

\* an ssn written under key version 1 is read back after the current version
\* has become 2
C3_Witness ==
    /\ deployed = "packaged"
    /\ req.operation = "get_user"
    /\ resp.success
    /\ secret.current_version = 2
    /\ \E r \in metadata :
         /\ r.user_id = req.user_id
         /\ r.field_name = "ssn"
         /\ r.pii_level = 3
         /\ r.app_key_version = 1
         /\ resp.data["ssn"] = supplied[r.user_id]["ssn"]

---------------------------------------------------------------------------
(* create_user is all-or-nothing *)

\* C4: a create_user either commits the user row together with all of its
\* metadata rows, or - a field encryption, the user insert or a metadata
\* insert failing - leaves the users and encryption_metadata tables as they
\* were and answers with an error envelope.
C4_CreateAllOrNothing ==
    [][ (req = NoReq /\ req'.operation = "create_user") =>
          IF resp'.success
          THEN /\ resp'.user_id \notin DOMAIN users
               /\ DOMAIN users' = DOMAIN users \cup {resp'.user_id}
               /\ \A x \in DOMAIN users : users'[x] = users[x]
               /\ metadata \subseteq metadata'
               /\ \A r \in metadata' \ metadata : r.user_id = resp'.user_id
               /\ \A fn \in DOMAIN req'.data :
                    (classify_pii_level(fn) \in {2, 3} /\ ~IsEmpty(req'.data[fn])) =>
                      \E r \in metadata' :
                         r.user_id = resp'.user_id /\ r.field_name = fn
          ELSE /\ users' = users
               /\ metadata' = metadata
               /\ nextId' = nextId
               /\ resp'.statusCode = 500
               /\ resp'.type # "none" ]_vars

\* the metadata insert of the second encrypted field fails after the user row
\* and the first field's metadata row were inserted: nothing of them is left
C4_Witness ==
    /\ req.operation = "create_user"
    /\ fault.kind = "insert_meta"
    /\ fault.field = "ssn"
    /\ DOMAIN req.data = {"address", "ssn"}
    /\ req.data["address"] = <<"a">>
    /\ req.data["ssn"] = <<"b">>
    /\ resp.statusCode = 500
    /\ users = [x \in {} |-> NULL]
    /\ metadata = {}

---------------------------------------------------------------------------
(* Crypto-shredding *)

\* C5: once delete_user(user_id) has succeeded, in every later state no
\* encryption_metadata row references user_id, the users row is gone, and a
\* get_user(user_id) does not succeed: it ends not-found whenever the database
\* answers.
C5_CryptoShredding ==
    \A id \in deleted :
       /\ id \notin DOMAIN users
       /\ \A r \in metadata : r.user_id # id
       /\ (req.operation = "get_user" /\ req.user_id = id) =>
            /\ ~resp.success
            /\ resp.data = EmptyData
            /\ fault.kind \notin {"connect", "select"} => resp.error = "not found"

\* a user whose ssn was stored (and audited) is deleted, and a later get_user
\* for it ends not-found
C5_Witness ==
    /\ req.operation = "get_user"
    /\ req.user_id \in deleted
    /\ resp.error = "not found"
    /\ \E i \in 1..Len(audit) :
         /\ audit[i].user_id = req.user_id
         /\ audit[i].field_name = "ssn"
         /\ audit[i].operation = "encrypt"

---------------------------------------------------------------------------
(* Ciphertext without metadata *)

\* C6: a level-2 or level-3 ciphertext is undecryptable without its metadata:
\* decrypt_field handed no metadata (None or {}) does not return the plaintext.
C6_UndecryptableWithoutMetadata ==
    ( /\ dec.called
      /\ held.result.encrypted
      /\ dec.md.empty )
    => dec.result.value # held.value

\* decrypt_field, handed no metadata, returns the plaintext of a level-2
\* ciphertext
C6_PlaintextWithoutMetadata ==
    /\ dec.called
    /\ held.field_name = "address"
    /\ held.result.encrypted
    /\ held.result.level = 2
    /\ dec.md = NoMetadata
    /\ dec.result = DecResult(held.value, "none")

---------------------------------------------------------------------------
(* Metadata rows and PII levels *)

\* C7: after a successful create_user, for every field supplied with a
\* non-empty value an encryption_metadata row (user_id, field) exists if and
\* only if the field's level is 2 or 3, and no row exists for a level-1 field.
C7_MetadataIffEncrypted ==
    (req.operation = "create_user" /\ resp.success) =>
      \A fn \in DOMAIN req.data :
         /\ ~IsEmpty(req.data[fn]) =>
              ( (\E r \in metadata : r.user_id = resp.user_id /\ r.field_name = fn)
                <=> classify_pii_level(fn) \in {2, 3} )
         /\ classify_pii_level(fn) = 1 =>
              ~ \E r \in metadata : r.user_id = resp.user_id /\ r.field_name = fn

\* the generated handler has written a metadata row for email, a level-1 field
C7_MetadataRowForLevel1 ==
    /\ deployed = "generated"
    /\ req.operation = "create_user"
    /\ resp.success
    /\ "email" \in DOMAIN req.data
    /\ req.data["email"] = <<"a">>
    /\ \E r \in metadata :
         r.user_id = resp.user_id /\ r.field_name = "email" /\ r.pii_level = 1

---------------------------------------------------------------------------
(* A field that fails to decrypt on read *)

\* C8: when the packaged get_user reads a user and the decryption of exactly
\* one encrypted field fails, the answer is a success envelope with every
\* other stored field under its value and the failed field as the sentinel
\* "[DECRYPTION_FAILED]".
C8_PartialFailureIsolation ==
    ( /\ deployed = "packaged"
      /\ req.operation = "get_user"
      /\ req.user_id \in DOMAIN users
      /\ Cardinality({c \in PackagedColumns : users[req.user_id][c] # NULL}) >= 2
      /\ fault.kind = "kms"
      /\ fault.field \in EncryptedFieldsOf(req.user_id) )
    => /\ resp.success
       /\ fault.field \in DOMAIN resp.data
       /\ resp.data[fault.field] = DECRYPTION_FAILED
       /\ \A c \in PackagedColumns :
            (users[req.user_id][c] # NULL /\ ~EndsWithEncrypted(c)) =>
              (c \in DOMAIN resp.data /\ resp.data[c] = users[req.user_id][c])

\* the KMS call for the ssn of a user who also has an email fails, and the
\* whole read ends as an error envelope with no field in it
C8_ReadAborted ==
    /\ deployed = "packaged"
    /\ req.operation = "get_user"
    /\ req.user_id \in DOMAIN users
    /\ users[req.user_id]["email"] # NULL
    /\ fault.kind = "kms"
    /\ fault.field = "ssn"
    /\ "ssn" \in EncryptedFieldsOf(req.user_id)
    /\ resp.statusCode = 500
    /\ ~resp.success
    /\ resp.data = EmptyData

---------------------------------------------------------------------------
(* list_users discloses no level-2/3 data *)

\* the users table with every "_encrypted" column emptied
Redacted(u) ==
    [id \in DOMAIN u |->
        [c \in DOMAIN u[id] |-> IF EndsWithEncrypted(c) THEN NULL ELSE u[id][c]]]

\* the rows the deployed handler's list_users returns over a users table
Listing(u, limit, offset) ==
    IF deployed = "packaged"
    THEN list_users(u, limit, offset, NoFault).users
    ELSE gen_list_users(u, limit, offset, NoFault).users

\* C9: list_users returns the same rows whatever the "_encrypted" columns and
\* the metadata rows hold, and a returned row has only the id and level-1
\* columns, never an "_encrypted" column.
C9_ListDisclosesNothing ==
    /\ \A limit \in 1..(MaxUsers + 1), offset \in 0..MaxUsers :
         Listing(users, limit, offset) = Listing(Redacted(users), limit, offset)
    /\ (req.operation = "list_users" /\ resp.success) =>
         /\ resp.users = Listing(Redacted(users), req.limit, req.offset)
         /\ \A i \in 1..Len(resp.users) :
              /\ DOMAIN resp.users[i] = {"id", "columns"}
              /\ DOMAIN resp.users[i].columns \subseteq Level1Names
              /\ \A c \in DOMAIN resp.users[i].columns : ~EndsWithEncrypted(c)

\* list_users answers with the row of a user who has an ssn stored
C9_Witness ==
    /\ req.operation = "list_users"
    /\ resp.success
    /\ Len(resp.users) = 1
    /\ users[resp.users[1].id]["ssn_encrypted"] # NULL
    /\ \E r \in metadata : r.user_id = resp.users[1].id /\ r.field_name = "ssn"

---------------------------------------------------------------------------
(* Audit writes are fire-and-forget *)

\* C10: a create_user or get_user leaves the same response envelope and the
\* same users and encryption_metadata tables whether its audit writes succeed
\* or fail at the connection, the insert or the commit, and no log_audit call
\* raises to its caller.
C10_AuditFireAndForget ==
    [][ (req = NoReq /\ req'.operation \in {"create_user", "get_user"}) =>
          \A o \in {Handle(req', Fault(fault'.kind, fault'.field, "none"))} :
             /\ resp' = o.resp
             /\ users' = o.users
             /\ metadata' = o.metadata
             /\ warned' = FALSE ]_vars

\* a create_user whose audit connection fails answers success, the user is
\* stored and the audit table got no row
C10_Witness ==
    /\ deployed = "packaged"
    /\ req.operation = "create_user"
    /\ fault.kind = "none"
    /\ fault.audit = "connect"
    /\ resp.success
    /\ resp.user_id \in DOMAIN users
    /\ audit = <<>>
    /\ ~warned

---------------------------------------------------------------------------
(* Audit of encrypt and decrypt accesses *)

\* the audit rows the invocation that just ran has appended
Appended == SubSeq(audit', Len(audit) + 1, Len(audit'))

\* C11: with the audit table writable, an invocation of create_user or
\* get_user leaves one audit row per encrypt_field or decrypt_field call it
\* made, for that field, with the operation and the success flag of the call:
\* success rows for the calls of a served request, and a failure row for the
\* call whose KMS request failed.
C11_EveryAccessAudited ==
    [][(deployed = "packaged" /\ req = NoReq /\ req' # NoReq /\ fault'.audit = "none")
       => /\ (req'.operation = "get_user" /\ resp'.statusCode = 200)
             => \A fn \in EncryptedFieldsOf(req'.user_id) :
                   Cardinality({i \in DOMAIN Appended :
                       Appended[i] = AuditRow(req'.user_id, fn, "decrypt", TRUE)}) = 1
          /\ (req'.operation = "create_user" /\ resp'.statusCode = 200)
             => \A fn \in {x \in DOMAIN req'.data : req'.data[x] # NULL} :
                   Cardinality({i \in DOMAIN Appended :
                       Appended[i] = AuditRow(resp'.user_id, fn, "encrypt", TRUE)}) = 1
          /\ (req'.operation = "get_user" /\ resp'.statusCode = 500 /\ fault'.kind = "kms")
             => \E i \in DOMAIN Appended :
                   Appended[i] = AuditRow(req'.user_id, fault'.field, "decrypt", FALSE)
          /\ (req'.operation = "create_user" /\ resp'.statusCode = 500 /\ fault'.kind = "kms")
             => \E i \in DOMAIN Appended :
                   /\ Appended[i].field_name = fault'.field
                   /\ Appended[i].operation = "encrypt"
                   /\ ~Appended[i].success
      ]_vars

\* a get_user whose decrypt_field call failed at KMS has answered 500 and the
\* audit table, writable, holds no failure row for the user
C11_FailedDecryptNotAudited ==
    /\ deployed = "packaged"
    /\ req.operation = "get_user"
    /\ fault.kind = "kms"
    /\ fault.audit = "none"
    /\ resp.statusCode = 500
    /\ fault.field \in EncryptedFieldsOf(req.user_id)
    /\ \A i \in DOMAIN audit :
          ~(audit[i].user_id = req.user_id /\ audit[i].operation = "decrypt"
            /\ ~audit[i].success)

---------------------------------------------------------------------------
(* The audit table under the operations *)

---------------------------------------------------------------------------
(* Values that are not encrypted *)

\* C13: for every field name, whatever its level, encrypt_field of None and of
\* '' returns value None, encrypted false and level 1 (and no method, key
\* version or KMS key); it calls neither KMS nor the secret store, so the result
\* is the same when either of them fails every call.
C13_EmptyShortCircuit ==
    (held.called /\ IsEmpty(held.value))
    => /\ held.result =
             EncResult(NULL, FALSE, 1, held.field_name, "none", 0, "none", "none")
       /\ \A kms_ok \in BOOLEAN, secrets_ok \in BOOLEAN :
             encrypt_field(Env(held.keys, kms_ok, secrets_ok), held.field_name,
                           held.value) = held.result

\* encrypt_field has returned for '' under a level-3 name with KMS and the
\* secret store both failing
C13_Witness ==
    /\ held.called
    /\ held.value = EmptyStr
    /\ classify_pii_level(held.field_name) = 3
    /\ ~held.kms_ok
    /\ ~held.secrets_ok
    /\ held.result.raised = "none"
    /\ held.result.value = NULL

\* the level decrypt_field works at: the metadata's, or the classification
EffectiveLevel(field_name, md) ==
    IF ~md.empty /\ md.has_level THEN md.level ELSE classify_pii_level(field_name)

\* C14: for a field name of level 1 and a non-empty value v, encrypt_field
\* returns v with encrypted false and level 1; decrypt_field at effective level
\* 1 returns the non-empty value it is handed unchanged; neither calls KMS or
\* the secret store, so both results stand when either of them fails every call.
C14_Level1Identity ==
    /\ (held.called /\ ~IsEmpty(held.value) /\ classify_pii_level(held.field_name) = 1)
       => /\ held.result = EncResult(held.value, FALSE, 1, held.field_name,
                                     "rds_only", 0, "none", "none")
          /\ \A kms_ok \in BOOLEAN, secrets_ok \in BOOLEAN :
                encrypt_field(Env(held.keys, kms_ok, secrets_ok), held.field_name,
                              held.value) = held.result
    /\ (dec.called /\ ~IsEmpty(held.result.value)
          /\ EffectiveLevel(held.field_name, dec.md) = 1)
       => /\ dec.result = DecResult(held.result.value, "none")
          /\ \A kms_ok \in BOOLEAN, secrets_ok \in BOOLEAN :
                decrypt_field(Env(secret, kms_ok, secrets_ok), held.field_name,
                              held.result.value, dec.md) = dec.result

\* a level-1 value has gone through encrypt_field and decrypt_field with KMS
\* and the secret store failing throughout
C14_Witness ==
    /\ held.called
    /\ dec.called
    /\ classify_pii_level(held.field_name) = 1
    /\ EffectiveLevel(held.field_name, dec.md) = 1
    /\ held.value \in Plaintexts
    /\ ~held.kms_ok /\ ~held.secrets_ok
    /\ ~dec.kms_ok /\ ~dec.secrets_ok
    /\ dec.result = DecResult(held.value, "none")

---------------------------------------------------------------------------
(* Classification *)

\* C15: classify_pii_level gives every field name one level in {1, 2, 3}: the
\* level of the static set that holds the lower-cased name (so "SSN" and "ssn"
\* both give 3), 1 when no set holds it; no name is in two of the sets; and
\* encrypt_field works at that level.
C15_ClassifierTotal ==
    /\ Level1Names \cap Level2Names = {}
    /\ Level1Names \cap Level3Names = {}
    /\ Level2Names \cap Level3Names = {}
    /\ held.called
       => \A level \in {classify_pii_level(held.field_name)} :
            /\ level \in {1, 2, 3}
            /\ LowerStrip(held.field_name) \in Level1Names => level = 1
            /\ LowerStrip(held.field_name) \in Level2Names => level = 2
            /\ LowerStrip(held.field_name) \in Level3Names => level = 3
            /\ LowerStrip(held.field_name)
                  \notin Level1Names \cup Level2Names \cup Level3Names => level = 1
            /\ \A other \in FieldNames :
                  LowerStrip(other) = LowerStrip(held.field_name)
                  => classify_pii_level(other) = level
            /\ ~IsEmpty(held.value) => held.result.level = level

\* encrypt_field has worked on a value under the name "SSN" at level 3, and
\* under a name of no set at level 1
C15_Witness ==
    /\ held.called
    /\ held.field_name = "SSN"
    /\ held.value \in Plaintexts
    /\ held.result.encrypted
    /\ held.result.level = 3
    /\ classify_pii_level("ssn") = 3
    /\ classify_pii_level("nickname") = 1

\* a ciphertext is base64 of a KMS blob
KmsWrapped(value) == Len(value) >= 3 /\ value[1] = "b64" /\ value[2] = "kms"

\* the KMS blob's plaintext is a Fernet token
FernetInside(value) == Len(value) >= 5 /\ KmsWrapped(value) /\ value[4] = "fernet"

\* C16: get_encryption_requirements reports level = classify_pii_level(name),
\* requires_kms exactly for level 2 and 3, requires_app_encryption exactly for
\* level 3; encrypt_field of a non-empty value goes through KMS exactly when
\* requires_kms holds (its result is then a KMS blob, and it fails when KMS
\* does) and through the local versioned key exactly when
\* requires_app_encryption holds (the blob then wraps a Fernet token, and the
\* call fails when the key cannot be fetched).
C16_RequirementsDriveEncryption ==
    (held.called /\ ~IsEmpty(held.value))
    => \A r \in {get_encryption_requirements(held.field_name)} :
         /\ r.level = classify_pii_level(held.field_name)
         /\ r.requires_kms <=> r.level >= 2
         /\ r.requires_app_encryption <=> r.level = 3
         /\ r.requires_kms
              <=> encrypt_field(Env(held.keys, FALSE, TRUE), held.field_name,
                                held.value).raised # "none"
         /\ r.requires_app_encryption
              <=> encrypt_field(Env(held.keys, TRUE, FALSE), held.field_name,
                                held.value).raised # "none"
         /\ held.result.raised = "none"
            => /\ r.requires_kms <=> KmsWrapped(held.result.value)
               /\ r.requires_kms <=> held.result.encrypted
               /\ r.requires_app_encryption <=> FernetInside(held.result.value)
               /\ r.requires_app_encryption <=> held.result.app_key_version # 0
               /\ ~r.requires_kms => held.result.value = held.value

\* encrypt_field has produced a level-2 ciphertext with the secret store
\* failing: KMS only
C16_Witness ==
    /\ held.called
    /\ held.value \in Plaintexts
    /\ get_encryption_requirements(held.field_name).requires_kms
    /\ ~get_encryption_requirements(held.field_name).requires_app_encryption
    /\ ~held.secrets_ok
    /\ held.result.raised = "none"
    /\ KmsWrapped(held.result.value)
    /\ ~FernetInside(held.result.value)

---------------------------------------------------------------------------
(* The level decrypt_field reads from the metadata *)

\* C17: handed metadata that carries a level L, decrypt_field follows the
\* level-L protocol whatever the field name classifies as: the result is the
\* same under every field name, so a ciphertext written at level L with its
\* metadata still decrypts to its plaintext under a name the classifier now
\* puts at another level.
C17_MetadataLevelPrecedence ==
    [][(dec' # dec /\ dec'.called /\ ~dec'.md.empty /\ dec'.md.has_level)
       => /\ \A other \in FieldNames :
                decrypt_field(Env(secret, dec'.kms_ok, dec'.secrets_ok), other,
                              held.result.value, dec'.md) = dec'.result
          /\ (/\ held.result.encrypted
              /\ dec'.md = MetadataOf(held.result)
              /\ dec'.kms_ok /\ dec'.secrets_ok)
             => dec'.result = DecResult(held.value, "none")
      ]_vars

\* a level-3 ciphertext has been decrypted with its metadata, and decrypts to
\* the same plaintext under a name of level 1
C17_Witness ==
    /\ dec.called
    /\ held.result.level = 3
    /\ held.result.encrypted
    /\ dec.md = MetadataOf(held.result)
    /\ dec.result = DecResult(held.value, "none")
    /\ classify_pii_level("nickname") = 1
    /\ decrypt_field(Env(secret, TRUE, TRUE), "nickname", held.result.value, dec.md)
          = DecResult(held.value, "none")

---------------------------------------------------------------------------
(* Events no route serves *)

\* the operations the deployed handler has a route for
SupportedOperations ==
    IF deployed = "packaged" THEN PackagedOperations ELSE GeneratedOperations

\* C18: an event whose operation is a non-empty string that is none of the
\* deployed handler's operations is answered with a 4xx envelope with success
\* false, and the users, metadata and audit tables are left as they were.
C18_UnknownOperationClientError ==
    [][(req = NoReq /\ req' # NoReq /\ req'.operation # ""
          /\ req'.operation \notin SupportedOperations)
       => /\ resp'.statusCode \in 400..499
          /\ ~resp'.success
          /\ UNCHANGED <<users, metadata, nextId, audit>>
      ]_vars

\* the packaged handler has answered an operation it has no route for with
\* the 500 envelope of a ValueError
C18_UnknownOperationIs500 ==
    /\ deployed = "packaged"
    /\ req.operation = "purge_user"
    /\ resp.statusCode = 500
    /\ resp.type = "ValueError"
    /\ ~resp.success

---------------------------------------------------------------------------
(* The packaged handler's error envelope *)

\* C19: the packaged lambda_handler answers every event: a served request with
\* statusCode 200, and an event without operation, an operation it has no
\* route for, or a route left by an exception, with statusCode 500 and a body
\* of success false, the exception's message and the exception's type name,
\* and nothing else.
C19_NeverRaises ==
    (deployed = "packaged" /\ req # NoReq)
    => /\ resp # NoResp
       /\ resp.statusCode \in {200, 500}
       /\ resp.statusCode = 200 <=> resp.success
       /\ ~resp.success
          => /\ resp.type # "none"
             /\ resp.error # "none"
             /\ resp = Resp(500, FALSE, resp.type, resp.error, NoUserId,
                            EmptyData, <<>>, 0)
       /\ req.operation \in OtherOperations
          => resp.statusCode = 500 /\ resp.type = "ValueError"
       /\ (/\ fault.kind = "connect"
           /\ \/ req.operation \in {"list_users", "audit_trail"}
              \/ req.operation \in {"get_user", "delete_user"}
                   /\ req.user_id # NoUserId)
          => resp.statusCode = 500 /\ resp.type = "OperationalError"

\* the packaged handler has answered an event without operation, and a
\* request whose database connection failed, with the 500 envelope
C19_Witness ==
    /\ deployed = "packaged"
    /\ resp.statusCode = 500
    /\ ~resp.success
    /\ \/ req.operation = "" /\ resp.type = "ValueError"
       \/ req.operation = "list_users" /\ fault.kind = "connect"
            /\ resp.type = "OperationalError"

---------------------------------------------------------------------------
(* The health check *)

\* C20: whichever of KMS, Secrets Manager, the database connection and the
\* schema validation fail, the health operation answers statusCode 200 with
\* success true; each component it probes reads 'healthy' exactly when its own
\* probe succeeded, and every probe has run (no component is left 'unknown').
C20_HealthAlwaysCompletes ==
    (req.operation = "health")
    => /\ resp.statusCode = 200
       /\ resp.success
       /\ resp.data["lambda"] = "healthy"
       /\ {"kms", "secrets_manager", "database"} \subseteq DOMAIN resp.data
       /\ deployed = "packaged" => "database_schema" \in DOMAIN resp.data
       /\ \A c \in DOMAIN resp.data \ {"lambda"} :
             /\ resp.data[c] = "healthy" <=> ProbeSucceeds(c, fault.field)
             /\ resp.data[c] # "unknown"

\* a health check during which KMS failed has answered 200 with kms in error
\* and the three components probed after it healthy
C20_Witness ==
    /\ deployed = "packaged"
    /\ req.operation = "health"
    /\ fault.field = {"kms"}
    /\ resp.statusCode = 200
    /\ resp.data["kms"] = "error"
    /\ resp.data["secrets_manager"] = "healthy"
    /\ resp.data["database"] = "healthy"
    /\ resp.data["database_schema"] = "healthy"

---------------------------------------------------------------------------
(* A user that is not there *)

\* C21: a get_user for a user_id without a users row, the database and the
\* services answering, ends in a 404 envelope from the handler, and the
\* backend's GET /users/{user_id} answers it with 404.
C21_MissingUserIs404 ==
    (/\ api.phase = "done"
     /\ api.request.endpoint = "get_user"
     /\ api.outcome = "returned"
     /\ fault = NoFault
     /\ api.request.user_id \notin DOMAIN users)
    => /\ api.result.statusCode = 404
       /\ ~api.result.success
       /\ api.status = 404

\* the packaged handler has answered a get_user for a missing user with the
\* 500 envelope of a ValueError, and the backend with 500
C21_MissingUserIs500 ==
    /\ deployed = "packaged"
    /\ api.phase = "done"
    /\ api.request.endpoint = "get_user"
    /\ api.outcome = "returned"
    /\ fault = NoFault
    /\ api.request.user_id \notin DOMAIN users
    /\ api.result.statusCode = 500
    /\ api.result.type = "ValueError"
    /\ api.status = 500

-----------------------------------------------------------------------------
(* Authentication in front of the Lambda (security.verify_api_key)         *)

\* C22: on every protected endpoint a request without an Authorization
\* header, or with a bearer token different from the configured API key, is
\* answered 403 or 401, and no Lambda invocation is made for it: no payload is
\* built and _invoke_lambda is never entered.
C22_UnauthenticatedNeverInvokes ==
    (/\ api.phase # "idle"
     /\ api.request.endpoint \in ProtectedEndpoints
     /\ api.request.authorization # api_key)
    => /\ api.phase = "done"
       /\ api.status = (IF api.request.authorization = "none" THEN 403 ELSE 401)
       /\ api.invoked = 0
       /\ api.payload = NoReq
       /\ api.outcome = "none"
       /\ req = NoReq

\* a request carrying a wrong bearer token has been answered 401, and one
\* without a header 403, both without a Lambda call
C22_Witness ==
    /\ api.phase = "done"
    /\ api.request.endpoint = "create_user"
    /\ api.request.authorization = "another-key"
    /\ api.status = 401
    /\ api.invoked = 0

-----------------------------------------------------------------------------
(* Parameter validation of the list and audit endpoints (main.list_users,  *)
(* main.get_audit_trail, main.get_all_audit_logs)                          *)

\* the request being served has passed authentication
Authenticated == api.phase # "idle" /\ api.request.authorization = api_key

\* the limit and offset of the request being served are inside the ranges of
\* its endpoint
InRange ==
    IF api.request.endpoint = "list_users"
    THEN api.request.limit \in 1..100 /\ api.request.offset >= 0
    ELSE api.request.limit \in 1..1000

\* C23: the list endpoint answers 400, with no Lambda invocation, every
\* request whose limit is outside 1..100 or whose offset is negative, and the
\* audit endpoints every request whose limit is outside 1..1000; a request
\* inside the ranges is forwarded to the Lambda with its limit and offset.
C23_RangeValidation ==
    (/\ Authenticated
     /\ api.request.endpoint \in {"list_users", "get_audit_trail", "get_all_audit_logs"})
    => IF InRange
       THEN /\ api.payload.operation
                 = (IF api.request.endpoint = "list_users" THEN "list_users" ELSE "audit_trail")
            /\ api.payload.limit = api.request.limit
            /\ api.request.endpoint = "list_users" => api.payload.offset = api.request.offset
            /\ api.request.endpoint = "get_audit_trail" => api.payload.user_id = api.request.user_id
            /\ req \in {NoReq, api.payload}
       ELSE /\ api.phase = "done"
            /\ api.status = 400
            /\ api.invoked = 0
            /\ api.payload = NoReq
            /\ req = NoReq

\* a list request with limit 101 has been answered 400 without a Lambda call
C23_Witness ==
    /\ Authenticated
    /\ api.request.endpoint = "list_users"
    /\ api.request.limit = 101
    /\ api.status = 400
    /\ api.invoked = 0

\* an audit request with limit 1000, the top of its range, has been forwarded
\* and answered
C23_Forwarded ==
    /\ Authenticated
    /\ api.request.endpoint = "get_all_audit_logs"
    /\ api.request.limit = 1000
    /\ api.phase = "done"
    /\ api.outcome = "returned"
    /\ api.payload.limit = 1000
    /\ api.status = 200

-----------------------------------------------------------------------------
(* Retries of LambdaClient._invoke_lambda                                  *)

\* _invoke_lambda has been entered for the request being served
Invoking == api.phase # "idle" /\ api.payload # NoReq

\* the waits after failed attempts 0, 1, ..., n-1: 1, 2, 4, ... seconds
Backoff(n) == [k \in 1..n |-> 2 ^ (k - 1)]

\* C24: _invoke_lambda invokes the Lambda at most retry_attempts times,
\* returns the first response obtained without invoking again, waits 2^k
\* seconds after failed attempt k and not after the last one, and ends either
\* by returning a response or, once retry_attempts attempts have failed, by
\* raising an error to its caller.
C24_RetryBackoff ==
    Invoking =>
       /\ api.invoked <= api.retry_attempts
       /\ api.slept = Backoff(Len(api.slept))
       /\ api.phase = "invoking" => api.invoked = Len(api.slept)
       /\ api.phase = "sleeping" =>
            api.invoked = Len(api.slept) + 1 /\ api.invoked < api.retry_attempts
       /\ api.phase = "done" =>
            /\ api.outcome \in {"returned", "raised"}
            /\ api.invoked = Len(api.slept) + 1
            /\ api.outcome = "returned" => api.result = resp /\ req = api.payload
            /\ api.outcome = "raised" =>
                 api.invoked = api.retry_attempts /\ api.status = 500

\* the same statement for a client configured with at least one attempt
C24_RetryBackoffConfigured ==
    api.retry_attempts >= 1 => C24_RetryBackoff

\* every call of _invoke_lambda ends
C24_Terminates == Invoking ~> api.phase = "done"

\* a client configured with retry_attempts = 0 has returned from
\* _invoke_lambda without a response and without an error, having made no
\* invocation
C24_ReturnsNothing ==
    /\ api.phase = "done"
    /\ api.retry_attempts = 0
    /\ api.payload # NoReq
    /\ api.invoked = 0
    /\ api.outcome = "returned None"

\* all attempts of a configured client failed: the error is raised after
\* waits of 1 and 2 seconds
C24_Exhausted ==
    /\ api.phase = "done"
    /\ api.retry_attempts = 3
    /\ api.outcome = "raised"
    /\ api.invoked = 3
    /\ api.slept = <<1, 2>>

-----------------------------------------------------------------------------
(* Retries of create_user (LambdaClient.create_user over _invoke_lambda)   *)

\* C27: one call of LambdaClient.create_user stores at most one user record,
\* whatever invocations fail and are retried, also when an invocation
\* committed the user and its response did not reach the client.
C27_AtMostOneUserPerCall ==
    api.request.endpoint = "create_user" => api.stored <= 1

\* one call of create_user has stored two users: the first invocation
\* committed a user and its response was lost, the retry of the same payload
\* committed another
C27_StoredTwice ==
    /\ api.phase = "done"
    /\ api.request.endpoint = "create_user"
    /\ api.outcome = "returned"
    /\ api.result.success
    /\ api.invoked = 2
    /\ api.stored = 2
    /\ Cardinality(DOMAIN users) >= 2

-----------------------------------------------------------------------------
(* The key provider's cache over the invocations of one execution           *)
(* environment (EncryptionHandler.get_app_keys, get_db_credentials)        *)

MaxInvocations == 3

MaxGeneration == 2

\* what the secret store holds under a name
SecretValue(name) ==
    IF name = app_keys_secret THEN <<secret>> ELSE <<proc.credentials>>

\* a call of an lru_cache(maxsize=1) method on instance self: the cached value
\* when the entry's key is self; otherwise the method body runs, and its
\* result replaces the entry unless it raises
lru_cache(entry, self, answered, value) ==
    IF entry.key = self
    THEN [entry |-> entry, called |-> FALSE, raised |-> "none", value |-> entry.value]
    ELSE IF answered
    THEN [entry |-> [key |-> self, value |-> value], called |-> TRUE,
          raised |-> "none", value |-> value]
    ELSE [entry |-> entry, called |-> TRUE, raised |-> "ClientError", value |-> <<>>]

\* lambda_handler builds the invocation's EncryptionHandler
NewHandler ==
    /\ proc.handler = 0
    /\ proc.made < MaxInvocations
    /\ proc' = [proc EXCEPT !.handler = proc.made + 1, !.made = @ + 1]
    /\ UNCHANGED <<dbvars, secret, held, dec, api, conn, race>>

\* get_app_keys (under get_current_app_cipher, get_app_cipher_for_version) or
\* get_db_credentials (under get_db_connection) is called on the invocation's
\* handler; the secret store answers or fails
GetSecret ==
    /\ proc.handler # 0
    /\ \E name \in Secrets, answered \in BOOLEAN :
         \E c \in {lru_cache(proc.cache[name], proc.handler, answered, SecretValue(name))} :
           proc' = [proc EXCEPT
                      !.cache[name] = c.entry,
                      !.fetched[name] = IF c.called /\ c.raised = "none" THEN @ + 1 ELSE @,
                      !.first[name] = IF @ = <<>> THEN c.value ELSE @,
                      !.got[name] = IF c.raised = "none" THEN c.value ELSE @]
    /\ UNCHANGED <<dbvars, secret, held, dec, api, conn, race>>

\* lambda_handler returns; the execution environment stays warm
EndInvocation ==
    /\ proc.handler # 0
    /\ proc' = [proc EXCEPT !.handler = 0]
    /\ UNCHANGED <<dbvars, secret, held, dec, api, conn, race>>

\* whoever operates the secrets rotates one of them
RotateSecret ==
    /\ \/ RotateKey /\ UNCHANGED proc
       \/ /\ proc.credentials < MaxGeneration
          /\ proc' = [proc EXCEPT !.credentials = @ + 1]
          /\ UNCHANGED secret
    /\ UNCHANGED <<dbvars, held, dec, api, conn, race>>

NextCache == NewHandler \/ GetSecret \/ EndInvocation \/ RotateSecret

SpecCache == Init /\ [][NextCache]_vars

\* C25: within one execution environment, after the first successful
\* retrieval of a secret every later getter call, in the same or in a later
\* invocation, returns that first snapshot, and the secret store is contacted
\* successfully at most once per secret.
C25_SingleSnapshot ==
    \A name \in Secrets :
       /\ proc.fetched[name] <= 1
       /\ proc.got[name] # <<>> => proc.got[name] = proc.first[name]

\* what the cache does give: one retrieval per secret and per handler
C25_OncePerHandler ==
    \A name \in Secrets :
       /\ proc.fetched[name] <= proc.made
       /\ (proc.handler # 0 /\ proc.cache[name].key = proc.handler)
          => proc.got[name] = proc.cache[name].value

\* the second invocation of a warm environment has retrieved the application
\* keys again and works with a snapshot other than the first
C25_FetchedAgain ==
    /\ proc.made = 2
    /\ proc.handler = 2
    /\ proc.fetched[app_keys_secret] = 2
    /\ proc.got[app_keys_secret] # proc.first[app_keys_secret]
    /\ proc.first[app_keys_secret] = <<InitSecret>>

-----------------------------------------------------------------------------
(* Connections of the database operations (DatabaseManager,                *)
(* EncryptionHandler.log_audit, the health probe)                          *)

MaxOperations == 2

Operations ==
    {"store_encrypted_user", "retrieve_encrypted_user", "delete_user",
     "list_users", "get_audit_trail", "validate_database_schema", "log_audit",
     "health_probe"}

\* the statements an operation executes on its cursor
Statements(op) ==
    CASE op \in {"store_encrypted_user", "retrieve_encrypted_user", "list_users"} -> 2
      [] op \in {"delete_user", "get_audit_trail", "log_audit"} -> 1
      [] op = "validate_database_schema" -> 3
      [] op = "health_probe" -> 0

\* the operations that end their try block with conn.commit()
Commits(op) == op \in {"store_encrypted_user", "delete_user", "log_audit"}

\* the operations whose except clause calls conn.rollback()
RollsBack(op) == op \in {"store_encrypted_user", "delete_user"}

\* the operations that set conn = None before their try block
StartsWithNone(op) == op \notin {"log_audit", "health_probe"}

\* a finally that closes on the success path only
finally_closes_on_success(local, raised) == local = "open" /\ ~raised

\* "finally: if conn: conn.close()", log_audit's "if 'conn' in locals():
\* conn.close()" and the probe's conn.close() after a successful connect: the
\* connection is closed exactly when the local holds one
finally_closes(local, raised) == local = "open"

\* an operation is called
Call ==
    /\ conn.pc = "idle"
    /\ conn.finished < MaxOperations
    /\ \E op \in Operations :
         conn' = [conn EXCEPT !.op = op, !.pc = "connect",
                              !.local = IF StartsWithNone(op) THEN "None" ELSE "unbound",
                              !.executed = 0, !.calls = <<>>, !.raised = FALSE]
    /\ UNCHANGED <<dbvars, secret, held, dec, api, proc, race>>

\* conn = get_db_connection(): the connection is made, or the call raises and
\* the local keeps its value
Connect ==
    /\ conn.pc = "connect"
    /\ \E connected \in BOOLEAN :
         conn' = IF connected
                 THEN [conn EXCEPT !.local = "open", !.open = @ + 1,
                                   !.pc = IF Statements(conn.op) = 0 THEN "finally"
                                          ELSE "execute"]
                 ELSE [conn EXCEPT !.raised = TRUE, !.pc = "except"]
    /\ UNCHANGED <<dbvars, secret, held, dec, api, proc, race>>

\* the next statement of the try block: it runs, or it raises (a database
\* error, or the operation's own ValueError)
Execute ==
    /\ conn.pc = "execute"
    /\ \E done \in BOOLEAN :
         conn' = IF done
                 THEN [conn EXCEPT !.executed = @ + 1,
                                   !.calls = Append(@, "execute"),
                                   !.pc = IF conn.executed + 1 < Statements(conn.op)
                                          THEN "execute"
                                          ELSE IF Commits(conn.op) THEN "commit"
                                          ELSE "finally"]
                 ELSE [conn EXCEPT !.raised = TRUE, !.pc = "except"]
    /\ UNCHANGED <<dbvars, secret, held, dec, api, proc, race>>

\* conn.commit()
Commit ==
    /\ conn.pc = "commit"
    /\ \E done \in BOOLEAN :
         conn' = IF done
                 THEN [conn EXCEPT !.calls = Append(@, "commit"), !.pc = "finally"]
                 ELSE [conn EXCEPT !.raised = TRUE, !.pc = "except"]
    /\ UNCHANGED <<dbvars, secret, held, dec, api, proc, race>>

\* the except clause: "if conn: conn.rollback()" where the operation has one;
\* re-raising, or rollback itself raising, leaves through the finally clause
Except ==
    /\ conn.pc = "except"
    /\ conn' = [conn EXCEPT
                  !.calls = IF RollsBack(conn.op) /\ conn.local = "open"
                            THEN Append(@, "rollback") ELSE @,
                  !.pc = "finally"]
    /\ UNCHANGED <<dbvars, secret, held, dec, api, proc, race>>

\* the finally clause, and the operation returns or raises to its caller
Finally ==
    /\ conn.pc = "finally"
    /\ conn' = IF finally_closes(conn.local, conn.raised)
               THEN [conn EXCEPT !.local = "closed", !.open = @ - 1,
                                 !.calls = Append(@, "close"),
                                 !.pc = "idle", !.finished = @ + 1]
               ELSE [conn EXCEPT !.pc = "idle", !.finished = @ + 1]
    /\ UNCHANGED <<dbvars, secret, held, dec, api, proc, race>>

NextConn == Call \/ Connect \/ Execute \/ Commit \/ Except \/ Finally

SpecConn == Init /\ [][NextConn]_vars

\* C26: every connection an operation opens is closed before the operation
\* returns, on the success path and on every failure path: no connection is
\* open between operations, and at most the running operation's one during it.
C26_ClosedPerOperation ==
    /\ conn.pc = "idle" => conn.open = 0
    /\ conn.open = (IF conn.local = "open" THEN 1 ELSE 0)
    /\ (conn.pc = "idle" /\ conn.op # "none")
       => (conn.local = "closed"
           <=> \E i \in 1..Len(conn.calls) : conn.calls[i] = "close")

\* store_encrypted_user has failed on its second statement and has returned
\* with its connection rolled back and closed
C26_Witness ==
    /\ conn.pc = "idle"
    /\ conn.op = "store_encrypted_user"
    /\ conn.raised
    /\ conn.calls = <<"execute", "rollback", "close">>
    /\ conn.open = 0

-----------------------------------------------------------------------------
(* Pairing of ciphertext and metadata (packaged handler)                   *)

\* the metadata rows of a user
RowsOf(id) == {r \in metadata : r.user_id = id}

\* C28: in the packaged handler's database every encryption_metadata row
\* (user_id, f) has a non-null ciphertext for f in that user's row, and every
\* non-null "_encrypted" column of a user's row has a metadata row under the
\* field name get_user derives from the column name; no level-2/3 field is
\* left out of the row while its metadata is written.
C28_CiphertextMetadataPaired ==
    deployed = "packaged" =>
      \A id \in DOMAIN users :
         /\ \A r \in RowsOf(id) :
              /\ WithSuffix(r.field_name) \in DOMAIN field_mapping
              /\ users[id][field_mapping[WithSuffix(r.field_name)]] # NULL
         /\ \A c \in DOMAIN users[id] :
              (EndsWithEncrypted(c) /\ users[id][c] # NULL)
              => \E r \in RowsOf(id) : r.field_name = StripSuffix(c)

\* a user created with a date_of_birth: the ciphertext is in dob_encrypted,
\* the metadata row is under date_of_birth, and there is none under dob, the
\* name get_user derives
C28_DobUnpaired ==
    /\ deployed = "packaged"
    /\ req.operation = "create_user"
    /\ resp.success
    /\ \E id \in DOMAIN users :
         /\ users[id]["dob_encrypted"] # NULL
         /\ StripSuffix("dob_encrypted") = "dob"
         /\ \E r \in RowsOf(id) : r.field_name = "date_of_birth"
         /\ ~ \E r \in RowsOf(id) : r.field_name = "dob"

\* a level-2 field without a column: handle_create_user_operation accepts
\* ip_address and store_encrypted_user writes its metadata row, but not its
\* ciphertext
C28_IpAddressDropped ==
    \A o \in {handle_create_user_operation(users, metadata, nextId, audit, secret,
                 Event("create_user", [fn \in {"email", "ip_address"} |-> <<"a">>],
                       NoUserId, 0, 0), NoFault)} :
       /\ o.resp.success
       /\ \E r \in o.metadata : r.user_id = o.resp.user_id /\ r.field_name = "ip_address"
       /\ \A c \in DOMAIN o.users[o.resp.user_id] :
            EndsWithEncrypted(c) => o.users[o.resp.user_id][c] = NULL

-----------------------------------------------------------------------------
(* get_user in one execution environment, delete_user in another           *)
(* (packaged handler; each statement reads the rows committed by then)     *)

\* the first SELECT of retrieve_encrypted_user: the users row, or no row and
\* the not-found answer
SelectUser ==
    /\ race.pc = "idle"
    /\ \E user_id \in 1..MaxUsers :
         race' = IF user_id \in DOMAIN users
                 THEN [race EXCEPT !.pc = "selected", !.user_id = user_id,
                                   !.user_dict = users[user_id],
                                   !.before = {r \in metadata : r.user_id = user_id}]
                 ELSE [race EXCEPT !.pc = "done", !.user_id = user_id,
                                   !.resp = lambda_handler(users, metadata, nextId, audit, secret,
                                               Event("get_user", EmptyData, user_id, 0, 0),
                                               NoFault).resp]
    /\ UNCHANGED <<dbvars, secret, held, dec, api, proc, conn>>

\* the second SELECT, on the metadata rows committed by now, and the rest of
\* handle_get_user_operation on the row read before
SelectMetadata ==
    /\ race.pc = "selected"
    /\ \E o \in {lambda_handler([x \in {race.user_id} |-> race.user_dict], metadata,
                                nextId, audit, secret,
                                Event("get_user", EmptyData, race.user_id, 0, 0),
                                NoFault)} :
         /\ Len(o.audit) <= MaxAudit
         /\ audit' = o.audit
         /\ race' = [race EXCEPT !.pc = "done",
                                 !.selected = {r \in metadata : r.user_id = race.user_id},
                                 !.resp = o.resp]
    /\ UNCHANGED <<deployed, users, metadata, nextId, supplied, deleted, req, fault,
                   resp, warned, secret, held, dec, api, proc, conn>>

NextRace == CreateUser \/ DeleteUser \/ Rotate \/ Deliver \/ SelectUser \/ SelectMetadata

SpecRace == InitField /\ [][NextRace]_vars

\* what get_user answers when both SELECTs see the user as the first one did
Undisturbed ==
    lambda_handler([x \in {race.user_id} |-> race.user_dict], race.before, nextId,
                   audit, secret, Event("get_user", EmptyData, race.user_id, 0, 0),
                   NoFault).resp

\* C29: a get_user that runs while another execution environment deletes the
\* user answers either as it would have on the user's complete data or with
\* the not-found failure; it never pairs the users row read before the delete
\* with the metadata rows read after it.
C29_ReadIsAtomic ==
    race.pc = "done" =>
       \/ race.user_dict = <<>> /\ ~race.resp.success /\ race.resp.type = "ValueError"
       \/ /\ race.user_dict # <<>>
          /\ race.selected = race.before
          /\ race.resp = Undisturbed

\* the user was deleted between the two SELECTs: get_user has read the ssn
\* ciphertext written under key version 2, found no metadata, tried key
\* version 1 and failed, where it would have answered with the ssn
C29_TornRead ==
    /\ race.pc = "done"
    /\ race.user_id \in deleted
    /\ race.user_dict # <<>>
    /\ race.user_dict["ssn_encrypted"] # NULL
    /\ race.before # {}
    /\ race.selected = {}
    /\ race.resp.statusCode = 500
    /\ Undisturbed.success

-----------------------------------------------------------------------------
(* What the database holds of level-2 and level-3 values                   *)

\* the columns of an encryption_metadata row: none of them carries a value
MetadataColumns ==
    {"user_id", "field_name", "pii_level", "app_key_version", "kms_key_alias",
     "encryption_algorithm"}

\* the non-empty values a user was created with for level-2 and level-3 fields
SensitiveValues(id) ==
    {supplied[id][fn] : fn \in {x \in DOMAIN supplied[id] : classify_pii_level(x) \in {2, 3}}}

\* C30: for every user created through create_user, no "_encrypted" column
\* of the users row holds the plaintext supplied for a level-2 or level-3
\* field, a column of another name holds only the value supplied for the
\* level-1 field of that name, and no metadata row has a column for a value:
\* a level-2/3 value is stored as ciphertext under its "_encrypted" column or
\* not at all.
C30_NoPlaintextPersisted ==
    /\ \A id \in DOMAIN users :
         \A c \in DOMAIN users[id] :
            users[id][c] # NULL =>
               IF EndsWithEncrypted(c)
               THEN /\ users[id][c] \notin Plaintexts
                    /\ users[id][c][1] = "b64"
                    /\ id \in DOMAIN supplied => users[id][c] \notin SensitiveValues(id)
               ELSE /\ classify_pii_level(c) = 1
                    /\ id \in DOMAIN supplied =>
                         c \in DOMAIN supplied[id] /\ users[id][c] = supplied[id][c]
    /\ \A r \in metadata : DOMAIN r = MetadataColumns

\* a user created with email "a" and ssn "a": the email column holds "a", the
\* ssn_encrypted column a ciphertext, the metadata row of ssn no value
C30_Witness ==
    \E id \in DOMAIN supplied \cap DOMAIN users :
       /\ DOMAIN supplied[id] = {"email", "ssn"}
       /\ supplied[id]["ssn"] = <<"a">>
       /\ users[id]["email"] = <<"a">>
       /\ users[id]["ssn_encrypted"] # NULL
       /\ users[id]["ssn_encrypted"] # <<"a">>
       /\ \E r \in metadata : r.user_id = id /\ r.field_name = "ssn"

===========================================================================
